---- MODULE Spec2Model ----
(***************************************************************************)
(* Reconciliation and batch execution of the catalog feed importer.        *)
(*                                                                         *)
(* ShopifyClient (src/src/logger.js, from line 78) and ProductProcessor    *)
(* (src/unnamed/part_001) are modelled as one state machine.  JavaScript   *)
(* runs one callback at a time, so every action below is the code that     *)
(* runs between two awaits.                                                *)
(*                                                                         *)
(* Text that the code lower-cases, strips or parses is a tuple of          *)
(* one-character strings; the empty tuple stands for '' and for an absent  *)
(* field, which the modelled code treats alike (both are falsy).  Numbers  *)
(* produced by parseFloat are kept in hundredths.                          *)
(***************************************************************************)
EXTENDS Integers, Sequences, FiniteSets, TLC

(***************************************************************************)
(* Bounds of the model.                                                    *)
(***************************************************************************)
MaxFeed == 2

MaxProducts == 4

MaxBatchSize == 2

MaxConcurrent == 2

(***************************************************************************)
(* Program constants.                                                      *)
(***************************************************************************)
DefaultBatchSize == 10

DefaultMaxConcurrentBatches == 3

(***************************************************************************)
(* Characters and strings.                                                 *)
(***************************************************************************)
UpperToLower ==
  [c \in {"A", "B", "C", "D", "E", "F", "G", "H", "I", "J", "K", "L",
           "M", "N", "O", "P", "Q", "R", "S", "T", "U", "V", "W", "X", "Y", "Z"} |->
     CASE c = "A" -> "a" [] c = "B" -> "b" [] c = "C" -> "c" [] c = "D" -> "d"
       [] c = "E" -> "e" [] c = "F" -> "f" [] c = "G" -> "g" [] c = "H" -> "h"
       [] c = "I" -> "i" [] c = "J" -> "j" [] c = "K" -> "k" [] c = "L" -> "l"
       [] c = "M" -> "m" [] c = "N" -> "n" [] c = "O" -> "o" [] c = "P" -> "p"
       [] c = "Q" -> "q" [] c = "R" -> "r" [] c = "S" -> "s" [] c = "T" -> "t"
       [] c = "U" -> "u" [] c = "V" -> "v" [] c = "W" -> "w" [] c = "X" -> "x"
       [] c = "Y" -> "y" [] c = "Z" -> "z"]

LowerChar(c) == IF c \in DOMAIN UpperToLower THEN UpperToLower[c] ELSE c

\* String.prototype.toLowerCase
toLowerCase(s) == [k \in 1..Len(s) |-> LowerChar(s[k])]

\* a || b on strings: the first operand unless it is falsy
OrElse(a, b) == IF a # <<>> THEN a ELSE b

UntitledProduct ==
  <<"U", "n", "t", "i", "t", "l", "e", "d", " ", "P", "r", "o", "d", "u", "c", "t">>

Unknown == <<"U", "n", "k", "n", "o", "w", "n">>

DigitVal ==
  [c \in {"0", "1", "2", "3", "4", "5", "6", "7", "8", "9"} |->
     CASE c = "0" -> 0 [] c = "1" -> 1 [] c = "2" -> 2 [] c = "3" -> 3
       [] c = "4" -> 4 [] c = "5" -> 5 [] c = "6" -> 6 [] c = "7" -> 7
       [] c = "8" -> 8 [] c = "9" -> 9]

IsDigit(c) == c \in DOMAIN DigitVal

DigitChar(d) == CHOOSE c \in DOMAIN DigitVal : DigitVal[c] = d

\* NaN, as a number no parse can produce
NaN == -999999999

\* Length of the longest prefix of s, from position k on, made of digits
RECURSIVE DigitRun(_, _)
DigitRun(s, k) ==
  IF k <= Len(s) /\ IsDigit(s[k]) THEN 1 + DigitRun(s, k + 1) ELSE 0

\* Value of the digits s[from .. from+n-1]
RECURSIVE DigitsValue(_, _, _)
DigitsValue(s, from, n) ==
  IF n = 0 THEN 0
  ELSE 10 * DigitsValue(s, from, n - 1) + DigitVal[s[from + n - 1]]

\* parseFloat, in hundredths: optional sign, digits, optional fraction; the
\* longest numeric prefix is read and NaN is returned when there is none.
\* Fraction digits after the second are not represented.
parseFloat(s) ==
  LET neg == Len(s) >= 1 /\ s[1] = "-"
      p == IF neg THEN 2 ELSE 1
      ni == DigitRun(s, p)
      hasDot == p + ni <= Len(s) /\ s[p + ni] = "."
      nf == IF hasDot THEN DigitRun(s, p + ni + 1) ELSE 0
      ip == DigitsValue(s, p, ni)
      f1 == IF nf >= 1 THEN DigitVal[s[p + ni + 1]] ELSE 0
      f2 == IF nf >= 2 THEN DigitVal[s[p + ni + 2]] ELSE 0
      mag == 100 * ip + 10 * f1 + f2
  IN IF ni = 0 /\ nf = 0 THEN NaN
     ELSE IF neg THEN 0 - mag ELSE mag

\* parseInt: optional sign and a digit prefix, NaN without one
parseInt(s) ==
  LET neg == Len(s) >= 1 /\ s[1] = "-"
      p == IF neg THEN 2 ELSE 1
      ni == DigitRun(s, p)
      v == DigitsValue(s, p, ni)
  IN IF ni = 0 THEN NaN ELSE IF neg THEN 0 - v ELSE v

\* Decimal digits of a natural number
RECURSIVE NatToString(_)
NatToString(n) ==
  IF n < 10 THEN <<DigitChar(n)>>
  ELSE NatToString(n \div 10) \o <<DigitChar(n % 10)>>

\* Number.prototype.toFixed(2) of a number held in hundredths
toFixed2(h) ==
  LET m == IF h < 0 THEN 0 - h ELSE h
      body == NatToString(m \div 100) \o <<".">>
                \o <<DigitChar((m % 100) \div 10), DigitChar(m % 10)>>
  IN IF h < 0 THEN <<"-">> \o body ELSE body

PriceChars == DOMAIN DigitVal \cup {".", "-"}

IsPriceChar(c) == c \in PriceChars

\* ShopifyClient.parsePrice
parsePrice(priceStr) ==
  IF priceStr = <<>> THEN <<"0", ".", "0", "0">>
  ELSE LET price == parseFloat(SelectSeq(priceStr, IsPriceChar))
       IN IF price = NaN THEN <<"0", ".", "0", "0">> ELSE toFixed2(price)

\* a !== b on numbers: NaN differs from everything, itself included
NumNeq(a, b) == a = NaN \/ b = NaN \/ a # b

(***************************************************************************)
(* Feed records (rows of the CSV) and remote catalogs.                     *)
(***************************************************************************)
Row(item, desc, msrp, contract, qty, status) ==
  [Item |-> item, Description |-> desc, MSRP |-> msrp,
   ContractPrice |-> contract, Qty_Avail |-> qty, Status |-> status]

\* a complete row
RowFull == Row(<<"A">>, <<"R">>, <<"$", "5">>, <<>>, <<"2">>, "Active")

\* the same identifier in another case, other content
RowSameSku == Row(<<"a">>, <<"S">>, <<>>, <<"7">>, <<>>, "")

\* no identifier, the display name of RowFull
RowNoItem == Row(<<>>, <<"R">>, <<"$", "5">>, <<>>, <<"2">>, "Active")

\* neither identifier nor display name
RowBare == Row(<<>>, <<>>, <<>>, <<>>, <<>>, "")

FeedRecords == {RowFull, RowSameSku, RowNoItem, RowBare}

\* the feeds handed to processProductsFromCSV
Feeds == UNION {[1..n -> FeedRecords] : n \in 0..MaxFeed}

\* the product lists handed to processBatchedProducts
ProductRows == <<RowFull, RowSameSku, RowNoItem, RowBare>>

ProductLists ==
  {[k \in 1..n |-> ProductRows[((k - 1) % Len(ProductRows)) + 1]] : n \in 0..MaxProducts}

Variant(sku, price, qty) ==
  [sku |-> sku, price |-> price, inventory_quantity |-> qty]

Product(id, title, status, variants) ==
  [id |-> id, title |-> title, status |-> status, variants |-> variants]

\* remote catalogs before the first run: empty, holding RowFull as the
\* importer writes it, holding a product that differs from the feed
Catalogs ==
  { <<>>,
    <<Product(1, <<"R">>, "active",
              <<Variant(<<"A">>, <<"5", ".", "0", "0">>, 2)>>)>>,
    <<Product(1, <<"r">>, "draft",
              <<Variant(<<"B">>, <<"7", ".", "0", "0">>, 0)>>)>> }

\* products of the catalogs handed to categorizeProducts: the product RowFull
\* is written as; a product whose second variant has the identifier of
\* RowFull; a product with the display name of RowFull in another case and
\* another identifier; a product without variants
ReconProducts ==
  { [title |-> <<"R">>, status |-> "active",
     variants |-> <<Variant(<<"A">>, <<"5", ".", "0", "0">>, 2)>>],
    [title |-> <<"S">>, status |-> "draft",
     variants |-> <<Variant(<<"x">>, <<"7", ".", "0", "0">>, 0),
                    Variant(<<"a">>, <<"7", ".", "0", "0">>, 0)>>],
    [title |-> <<"r">>, status |-> "active",
     variants |-> <<Variant(<<"B">>, <<"5", ".", "0", "0">>, 2)>>],
    [title |-> <<"T">>, status |-> "active"] }

MaxCatalog == 2

\* the catalogs handed to categorizeProducts; the service numbers the products
ReconCatalogs ==
  UNION {{[n \in 1..len |-> [id |-> n] @@ c[n]] : c \in [1..len -> ReconProducts]} :
           len \in 0..MaxCatalog}

(***************************************************************************)
(* Payload builder (the tracked fields of it).                             *)
(***************************************************************************)
\* ShopifyClient.createVariant
createVariant(csvItem) ==
  LET q == parseInt(csvItem.Qty_Avail)
  IN [sku |-> OrElse(csvItem.Item, <<>>),
      price |-> parsePrice(OrElse(csvItem.MSRP, csvItem.ContractPrice)),
      inventory_quantity |-> IF q = NaN \/ q = 0 THEN 0 ELSE q]

\* csvItem.Status === 'Active' ? 'active' : 'draft'
StatusOf(csvItem) == IF csvItem.Status = "Active" THEN "active" ELSE "draft"

\* ShopifyClient.mapCSVToShopifyProduct
mapCSVToShopifyProduct(csvItem) ==
  [title |-> OrElse(csvItem.Description, OrElse(csvItem.Item, UntitledProduct)),
   status |-> StatusOf(csvItem),
   variants |-> <<createVariant(csvItem)>>]

(***************************************************************************)
(* Reconciliation index.                                                   *)
(***************************************************************************)
VariantsOf(p) == IF "variants" \in DOMAIN p THEN p.variants ELSE <<>>

\* keys under which the index build stores product p in existingProductsBySku
SkuKeys(p) ==
  {toLowerCase(VariantsOf(p)[k].sku) :
     k \in {j \in 1..Len(VariantsOf(p)) : VariantsOf(p)[j].sku # <<>>}}

Max(S) == CHOOSE x \in S : \A y \in S : y <= x

\* positions of the products stored under a key; Map.set keeps the last
SkuHits(existing, key) ==
  {n \in 1..Len(existing) : key \in SkuKeys(existing[n])}

TitleHits(existing, key) ==
  {n \in 1..Len(existing) : toLowerCase(existing[n].title) = key}

\* the lookup with the display-name index consulted first
FindExistingTitleFirst(csvItem, existing) ==
  LET sku == toLowerCase(csvItem.Item)
      title == toLowerCase(OrElse(csvItem.Description, OrElse(csvItem.Item, <<>>)))
  IN IF title # <<>> /\ TitleHits(existing, title) # {}
       THEN Max(TitleHits(existing, title))
     ELSE IF sku # <<>> /\ SkuHits(existing, sku) # {}
       THEN Max(SkuHits(existing, sku))
     ELSE 0

\* the lookup of categorizeProducts: 0 for no match, else the position of
\* the matched product in the fetched list
FindExisting(csvItem, existing) ==
  LET sku == toLowerCase(csvItem.Item)
      title == toLowerCase(OrElse(csvItem.Description, OrElse(csvItem.Item, <<>>)))
  IN IF sku # <<>> /\ SkuHits(existing, sku) # {}
       THEN Max(SkuHits(existing, sku))
     ELSE IF title # <<>> /\ TitleHits(existing, title) # {}
       THEN Max(TitleHits(existing, title))
     ELSE 0

(***************************************************************************)
(* Diff calculator.                                                        *)
(***************************************************************************)
\* ShopifyClient.doesProductNeedUpdate: the changed fields, in check order
doesProductNeedUpdate(csvItem, existingProduct) ==
  LET csvTitle == OrElse(csvItem.Description, OrElse(csvItem.Item, UntitledProduct))
      csvPrice == parsePrice(OrElse(csvItem.MSRP, csvItem.ContractPrice))
      vs == VariantsOf(existingProduct)
      hasPrice == Len(vs) >= 1 /\ "price" \in DOMAIN vs[1] /\ vs[1].price # <<>>
      q == parseInt(csvItem.Qty_Avail)
      csvInventory == IF q = NaN \/ q = 0 THEN 0 ELSE q
      hasInventory == Len(vs) >= 1 /\ "inventory_quantity" \in DOMAIN vs[1]
  IN (IF existingProduct.title # csvTitle THEN <<"title">> ELSE <<>>)
     \o (IF hasPrice /\ NumNeq(parseFloat(vs[1].price), parseFloat(csvPrice))
           THEN <<"price">> ELSE <<>>)
     \o (IF hasInventory /\ vs[1].inventory_quantity # csvInventory
           THEN <<"inventory">> ELSE <<>>)
     \o (IF "status" \notin DOMAIN existingProduct
             \/ existingProduct.status # StatusOf(csvItem)
           THEN <<"status">> ELSE <<>>)

\* the decision categorizeProducts takes for the record at position idx
Decision(csvData, idx, existing, enableUpdates) ==
  LET csvItem == csvData[idx]
      n == FindExisting(csvItem, existing)
  IN IF n = 0 THEN [idx |-> idx, csvItem |-> csvItem, action |-> "create"]
     ELSE LET changes == doesProductNeedUpdate(csvItem, existing[n])
          IN IF enableUpdates /\ changes # <<>>
               THEN [idx |-> idx, csvItem |-> csvItem, action |-> "update",
                     existingProduct |-> existing[n], changes |-> changes]
             ELSE [idx |-> idx, csvItem |-> csvItem, action |-> "skip",
                   existingProduct |-> existing[n]]

IsCreate(op) == op.action = "create"

\* every matched record taken as an update
IsNotCreate(op) == op.action # "create"

IsUpdate(op) == op.action = "update"

\* ShopifyClient.categorizeProducts followed by the concatenation of
\* processProductsFromCSV: the creates, then the updates
allProductsToProcess(csvData, existing, enableUpdates) ==
  LET ds == [k \in 1..Len(csvData) |-> Decision(csvData, k, existing, enableUpdates)]
  IN SelectSeq(ds, IsCreate) \o SelectSeq(ds, IsUpdate)

(***************************************************************************)
(* Remote catalog writer, as the remote service answers it.                *)
(***************************************************************************)
\* POST products.json: the payload is stored under a fresh id
RemoteCreate(catalog, productData) ==
  Append(catalog, [id |-> Len(catalog) + 1] @@ productData)

Includes(seq, x) == \E k \in 1..Len(seq) : seq[k] = x

\* ShopifyClient.buildUpdateData applied by PUT products/<id>.json
RemoteUpdate(catalog, op) ==
  LET csvItem == op.csvItem
      old == catalog[op.existingProduct.id]
      v1 == createVariant(csvItem)
      newTitle == IF Includes(op.changes, "title")
                    THEN OrElse(csvItem.Description, OrElse(csvItem.Item, UntitledProduct))
                    ELSE old.title
      newStatus == IF Includes(op.changes, "status") THEN StatusOf(csvItem) ELSE old.status
      oldVs == VariantsOf(old)
      newVs == IF Len(oldVs) = 0 THEN oldVs
               ELSE [oldVs EXCEPT
                       ![1] = [sku |-> oldVs[1].sku,
                               price |-> IF Includes(op.changes, "price")
                                           THEN v1.price ELSE oldVs[1].price,
                               inventory_quantity |->
                                 IF Includes(op.changes, "inventory")
                                   THEN v1.inventory_quantity
                                   ELSE oldVs[1].inventory_quantity]]
  IN [catalog EXCEPT ![op.existingProduct.id] =
        [id |-> old.id, title |-> newTitle, status |-> newStatus, variants |-> newVs]]

\* DELETE products/<id>.json
RemoteDelete(catalog, productId) ==
  LET keep == {n \in 1..Len(catalog) : catalog[n].id # productId}
      Nth(k) == CHOOSE n \in keep : Cardinality({m \in keep : m < n}) = k - 1
  IN [k \in 1..Cardinality(keep) |-> catalog[Nth(k)]]

(***************************************************************************)
(* Batch partitioning.                                                     *)
(***************************************************************************)
\* slice with the upper bound taken as inclusive
sliceInclusive(arr, from, to) ==
  LET hi == IF to + 1 < Len(arr) THEN to + 1 ELSE Len(arr)
  IN IF from >= hi THEN <<>> ELSE [k \in 1..(hi - from) |-> arr[from + k]]

\* a bound of slice relative to the length: a negative one counts from the end
RelativeIndex(n, len) ==
  IF n < 0 THEN (IF len + n > 0 THEN len + n ELSE 0)
  ELSE (IF n < len THEN n ELSE len)

\* Array.prototype.slice(from, to) with 0-based bounds, to exclusive
slice(arr, from, to) ==
  LET lo == RelativeIndex(from, Len(arr))
      hi == RelativeIndex(to, Len(arr))
  IN IF lo >= hi THEN <<>> ELSE [k \in 1..(hi - lo) |-> arr[lo + k]]

\* the loop of processBatchedProducts that fills `batches`
RECURSIVE SplitFrom(_, _, _)
SplitFrom(products, i, batchSize) ==
  IF i < Len(products)
    THEN <<slice(products, i, i + batchSize)>> \o SplitFrom(products, i + batchSize, batchSize)
    ELSE <<>>

RECURSIVE Concat(_)
Concat(ss) == IF ss = <<>> THEN <<>> ELSE Head(ss) \o Concat(Tail(ss))

(***************************************************************************)
(* State.                                                                  *)
(***************************************************************************)
VARIABLES
  pc,          \* position of the running entry point
  entry,       \* "none", "batched" (processBatchedProducts), "csv" (processProductsFromCSV)
  initialized, \* ShopifyClient.initialized
  remote,      \* the catalog held by the remote service
  csvData,     \* the records handed to the entry point
  opts,        \* batchConfig / the options of processProductsFromCSV
  todo,        \* products / allProductsToProcess
  batches,     \* batches of processBatchedProducts / the batches sliced so far
  i,           \* loop index of the batch loop
  j,           \* position inside the batch in sequential mode
  bstate,      \* per batch: "queued", "initializing", "running", "resolved", "aggregated"
  bresult,     \* per batch: the batchResult of processSingleBatch
  outcome,     \* per record: "none", "inflight", "ok", "fail"
  calls,       \* per record: remote create/update calls issued in this run
  recorded,    \* per record: the bucket its outcome was counted in
  results,     \* the results object of the entry point
  delays,      \* pacing delays waited so far
  run          \* 1, or 2 in a re-run of processProductsFromCSV

VARIABLES
  targetDate,  \* the date handed to deleteProductsByDate
  decisions,   \* the decisions of a call of categorizeProducts
  category,    \* the category string handed to getCategoryId
  categoryId,  \* the identifier getCategoryId returned
  currentPage, \* the page processProductsFromAPI fetches next
  consecutiveEmptyPages

VARIABLES
  filtered,    \* what the calls of filterProducts returned, by class
  evaluation,  \* what evaluateProduct returned for each record
  analysis,    \* what performAnalysis returned
  fetched,     \* the calls of fetchPageFromAPI, in order, each with its answer
  allProducts  \* the list getAllProducts collects and returns

\* the state of the filters and of the analysis
more == <<filtered, evaluation, analysis, fetched, allProducts>>

\* the state of the entry points other than the two importers
rest == <<targetDate, decisions, category, categoryId, currentPage,
          consecutiveEmptyPages, more>>

vars ==
  <<pc, entry, initialized, remote, csvData, opts, todo, batches, i, j,
    bstate, bresult, outcome, calls, recorded, results, delays, run, rest>>

\* the results object; processBatchedProducts uses totalProcessed, created,
\* errors, errorDetails and processProductsFromCSV total, created, updated,
\* skipped, errors, errorDetails (the product lists are not modelled)
NoResults ==
  [total |-> 0, totalProcessed |-> 0, created |-> 0, updated |-> 0,
   skipped |-> 0, errors |-> 0, errorDetails |-> <<>>]

\* the batchResult object of processSingleBatch
NoBatchResult == [processed |-> 0, created |-> 0, errors |-> 0, errorDetails |-> <<>>]

NoOpts ==
  [batchSize |-> DefaultBatchSize,
   maxConcurrentBatches |-> DefaultMaxConcurrentBatches,
   dryRun |-> FALSE, parallelBatch |-> TRUE, enableUpdates |-> TRUE]

Init ==
  /\ pc = "idle"
  /\ entry = "none"
  /\ initialized = FALSE
  /\ remote \in Catalogs
  /\ csvData = <<>>
  /\ opts = NoOpts
  /\ todo = <<>>
  /\ batches = <<>>
  /\ i = 0
  /\ j = 0
  /\ bstate = <<>>
  /\ bresult = <<>>
  /\ outcome = <<>>
  /\ calls = <<>>
  /\ recorded = <<>>
  /\ results = NoResults
  /\ delays = 0
  /\ run = 1
  /\ targetDate = <<>>
  /\ decisions = <<>>
  /\ category = <<>>
  /\ categoryId = <<>>
  /\ currentPage = 0
  /\ consecutiveEmptyPages = 0
  /\ filtered = <<>>
  /\ evaluation = <<>>
  /\ analysis = <<>>
  /\ fetched = <<>>
  /\ allProducts = <<>>

(***************************************************************************)
(* Helpers over the state.                                                 *)
(***************************************************************************)
IdxOf(batch) == {batch[k].idx : k \in 1..Len(batch)}

OpOf(idx) == CHOOSE op \in {todo[k] : k \in 1..Len(todo)} : op.idx = idx

\* processBatchDirect only creates; processProductsFromCSV tags its items
ActionOf(op) == IF "action" \in DOMAIN op THEN op.action ELSE "create"

\* Promise.all in place of Promise.allSettled: the first failure settles it
AllSettledFailFast(batch) ==
  \/ \E k \in 1..Len(batch) : outcome[batch[k].idx] = "fail"
  \/ \A k \in 1..Len(batch) : outcome[batch[k].idx] = "ok"

\* a batch that resolves only when every item succeeded
AllFulfilled(batch) ==
  \A k \in 1..Len(batch) : outcome[batch[k].idx] = "ok"

\* Promise.allSettled(promises) has resolved: no item promise is pending
AllSettled(batch) ==
  \A k \in 1..Len(batch) : outcome[batch[k].idx] \in {"ok", "fail"}

\* the item calls of the records in S are issued
Issue(S) ==
  /\ outcome' = [x \in DOMAIN outcome |-> IF x \in S THEN "inflight" ELSE outcome[x]]
  /\ calls' = [x \in DOMAIN calls |-> IF x \in S THEN calls[x] + 1 ELSE calls[x]]

\* a window one batch wider than maxConcurrentBatches
WindowOfWide(start) ==
  {b \in 1..Len(batches) : b > start /\ b <= start + opts.maxConcurrentBatches + 1}

\* the batches of the window that starts at batch index i (0-based)
WindowOf(start) ==
  {b \in 1..Len(batches) : b > start /\ b <= start + opts.maxConcurrentBatches}

IsOk(op) == outcome[op.idx] = "ok"

IsFail(op) == outcome[op.idx] = "fail"

IsOkCreate(op) == outcome[op.idx] = "ok" /\ ActionOf(op) = "create"

IsOkUpdate(op) == outcome[op.idx] = "ok" /\ ActionOf(op) = "update"

\* the bucket an item is counted in when the settled results are walked
BucketOf(op) ==
  CASE IsOkCreate(op) -> "created"
    [] IsOkUpdate(op) -> "updated"
    [] IsFail(op) -> "error"
    [] OTHER -> "none"

Record(batch) ==
  recorded' = [x \in DOMAIN recorded |->
                 IF x \in IdxOf(batch) THEN BucketOf(OpOf(x)) ELSE recorded[x]]

\* errorDetails entries of the failed items of a batch, in batch order
ItemErrors(batch, key) ==
  LET failed == SelectSeq(batch, IsFail)
  IN [k \in 1..Len(failed) |->
        IF key = "item"
          THEN [item |-> OrElse(failed[k].csvItem.Item, Unknown), error |-> "call failed"]
          ELSE [csvItem |-> OrElse(failed[k].csvItem.Item, Unknown), error |-> "call failed"]]

\* a dry run taken for a real one
dryRunIgnored(options) == FALSE

\* the dryRun option as the executors read it
dryRun(options) == options.dryRun

(***************************************************************************)
(* ShopifyClient.initialize, called before a run.                          *)
(***************************************************************************)
Initialize ==
  /\ pc = "idle"
  /\ ~initialized
  /\ initialized' = TRUE
  /\ UNCHANGED <<pc, entry, remote, csvData, opts, todo, batches, i, j, bstate,
                 bresult, outcome, calls, recorded, results, delays, run, rest>>

(***************************************************************************)
(* ProductProcessor.processBatchedProducts.                                *)
(***************************************************************************)
CallProcessBatchedProducts ==
  \E products \in ProductLists, bs \in 1..MaxBatchSize, mcb \in 1..MaxConcurrent :
    LET items == [k \in 1..Len(products) |-> [idx |-> k, csvItem |-> products[k]]]
        bt == SplitFrom(items, 0, bs)
    IN /\ pc = "idle"
       /\ entry' = "batched"
       /\ csvData' = products
       /\ opts' = [opts EXCEPT !.batchSize = bs, !.maxConcurrentBatches = mcb]
       /\ todo' = items
       /\ batches' = bt
       /\ bstate' = [b \in 1..Len(bt) |-> "queued"]
       /\ bresult' = [b \in 1..Len(bt) |-> NoBatchResult]
       /\ outcome' = [x \in 1..Len(products) |-> "none"]
       /\ calls' = [x \in 1..Len(products) |-> 0]
       /\ recorded' = [x \in 1..Len(products) |-> "none"]
       /\ results' = NoResults
       /\ i' = 0
       /\ pc' = IF Len(bt) > 0 THEN "window" ELSE "done"
       /\ UNCHANGED <<initialized, remote, j, delays, run, rest>>

\* lines 199-223: every batch of the window enters processSingleBatch and
\* processBatchDirect; an initialised client issues the item calls at once
StartWindow ==
  /\ pc = "window"
  /\ LET w == WindowOf(i)
     IN /\ bstate' = [b \in DOMAIN bstate |->
                        IF b \in w
                          THEN IF initialized THEN "running" ELSE "initializing"
                          ELSE bstate[b]]
        /\ Issue(IF initialized THEN UNION {IdxOf(batches[b]) : b \in w} ELSE {})
  /\ pc' = "awaitWindow"
  /\ UNCHANGED <<entry, initialized, remote, csvData, opts, todo, batches, i, j,
                 bresult, recorded, results, delays, run, rest>>

\* processBatchDirect lines 465-467 and 480-499: initialize() succeeded
InitializeOK(b) ==
  /\ entry = "batched"
  /\ b \in DOMAIN bstate
  /\ bstate[b] = "initializing"
  /\ initialized' = TRUE
  /\ bstate' = [bstate EXCEPT ![b] = "running"]
  /\ Issue(IdxOf(batches[b]))
  /\ UNCHANGED <<pc, entry, remote, csvData, opts, todo, batches, i, j, bresult,
                 recorded, results, delays, run, rest>>

\* the failed batch counted with the configured batch size
BatchFailureBySize(b) ==
  [NoBatchResult EXCEPT
     !.errors = opts.batchSize,
     !.errorDetails =
        <<[batch |-> b, error |-> "initialize failed",
           items |-> [k \in 1..Len(batches[b]) |-> batches[b][k].csvItem.Item]]>>]

\* the batchResult of the catch branch of processSingleBatch
BatchFailure(b) ==
  [NoBatchResult EXCEPT
     !.errors = Len(batches[b]),
     !.errorDetails =
        <<[batch |-> b, error |-> "initialize failed",
           items |-> [k \in 1..Len(batches[b]) |-> batches[b][k].csvItem.Item]]>>]

\* initialize() failed: processBatchDirect rejects before any item is mapped
InitializeFail(b) ==
  /\ entry = "batched"
  /\ b \in DOMAIN bstate
  /\ bstate[b] = "initializing"
  /\ bstate' = [bstate EXCEPT ![b] = "resolved"]
  /\ bresult' = [bresult EXCEPT ![b] = BatchFailure(b)]
  /\ UNCHANGED <<pc, entry, initialized, remote, csvData, opts, todo, batches, i, j,
                 outcome, calls, recorded, results, delays, run, rest>>

\* the remote service answers the call of record idx with success
CallSucceeds(idx) ==
  /\ idx \in DOMAIN outcome
  /\ outcome[idx] = "inflight"
  /\ outcome' = [outcome EXCEPT ![idx] = "ok"]
  /\ remote' = CASE ActionOf(OpOf(idx)) = "create" ->
                      RemoteCreate(remote, mapCSVToShopifyProduct(OpOf(idx).csvItem))
                   [] ActionOf(OpOf(idx)) = "update" -> RemoteUpdate(remote, OpOf(idx))
                   [] ActionOf(OpOf(idx)) = "delete" ->
                      RemoteDelete(remote, OpOf(idx).product.id)
  /\ UNCHANGED <<pc, entry, initialized, csvData, opts, todo, batches, i, j, bstate,
                 bresult, calls, recorded, results, delays, run, rest>>

\* the call of record idx fails (error answer or timeout)
CallFails(idx) ==
  /\ idx \in DOMAIN outcome
  /\ outcome[idx] = "inflight"
  /\ outcome' = [outcome EXCEPT ![idx] = "fail"]
  /\ UNCHANGED <<pc, entry, initialized, remote, csvData, opts, todo, batches, i, j,
                 bstate, bresult, calls, recorded, results, delays, run, rest>>

\* the results object processBatchDirect builds from the settled promises
DirectResults(batch) ==
  [NoResults EXCEPT
     !.total = Len(batch),
     !.created = Len(SelectSeq(batch, IsOk)),
     !.errors = Len(SelectSeq(batch, IsFail)),
     !.errorDetails = ItemErrors(batch, "item")]

\* processBatchDirect lines 502-527, processSingleBatch lines 273-290
BatchSettled(b) ==
  /\ entry = "batched"
  /\ b \in DOMAIN bstate
  /\ bstate[b] = "running"
  /\ AllSettled(batches[b])
  /\ bstate' = [bstate EXCEPT ![b] = "resolved"]
  /\ bresult' = [bresult EXCEPT ![b] =
                   [NoBatchResult EXCEPT
                      !.processed = Len(batches[b]),
                      !.created = DirectResults(batches[b]).created,
                      !.errors = DirectResults(batches[b]).errors,
                      !.errorDetails = DirectResults(batches[b]).errorDetails]]
  /\ Record(batches[b])
  /\ UNCHANGED <<pc, entry, initialized, remote, csvData, opts, todo, batches, i, j,
                 outcome, calls, results, delays, run, rest>>

\* the window taken as resolved as soon as one of its batches is
WindowResolvedAny(start) == \E b \in WindowOf(start) : bstate[b] = "resolved"

\* the window has resolved: Promise.allSettled(batchPromises)
WindowResolved(start) == \A b \in WindowOf(start) : bstate[b] = "resolved"

\* results after the forEach of lines 226-242 over the batches bs (ascending)
RECURSIVE Accumulate(_, _, _)
Accumulate(res, from, to) ==
  IF from > to THEN res
  ELSE Accumulate(
         [res EXCEPT
            !.totalProcessed = @ + bresult[from].processed,
            !.created = @ + bresult[from].created,
            !.errors = @ + bresult[from].errors,
            !.errorDetails = @ \o bresult[from].errorDetails],
         from + 1, to)

\* the condition of line 245 with <= for <
MoreWindowsAtInclusive(start, mcb, nb) == start + mcb <= nb

\* the condition of line 245: another window follows
MoreWindowsAt(start, mcb, nb) == start + mcb < nb

\* the loop given up after a window in which an item or a batch failed
MoreWindowsUntilError(start) ==
  /\ start + opts.maxConcurrentBatches < Len(batches)
  /\ \A b \in WindowOf(start) : bresult[b].errors = 0

MoreWindows(start) == MoreWindowsAt(start, opts.maxConcurrentBatches, Len(batches))

\* lines 223-248
WindowAggregate ==
  /\ pc = "awaitWindow"
  /\ WindowResolved(i)
  /\ results' = Accumulate(results, i + 1, Max(WindowOf(i)))
  /\ bstate' = [b \in DOMAIN bstate |->
                   IF b \in WindowOf(i) /\ bstate[b] = "resolved"
                     THEN "aggregated" ELSE bstate[b]]
  /\ IF MoreWindows(i)
       THEN pc' = "delay" /\ delays' = delays + 1
       ELSE pc' = "done" /\ delays' = delays
  /\ UNCHANGED <<entry, initialized, remote, csvData, opts, todo, batches, i, j,
                 bresult, outcome, calls, recorded, run, rest>>

\* the timer of line 247 fires; the loop steps to the next window
DelayElapsed ==
  /\ pc = "delay"
  /\ i' = i + opts.maxConcurrentBatches
  /\ pc' = "window"
  /\ UNCHANGED <<entry, initialized, remote, csvData, opts, todo, batches, j, bstate,
                 bresult, outcome, calls, recorded, results, delays, run, rest>>

(***************************************************************************)
(* ShopifyClient.processProductsFromCSV.  The run is modelled from an      *)
(* initialised client (a failing initialize() at lines 532-534 rejects the *)
(* call before any record is read) and with the fetched catalog passed as  *)
(* shopifyProducts.                                                        *)
(***************************************************************************)
\* lines 553-607: the results object, the index, the categorisation
CsvBegin(data, o, existing) ==
  /\ csvData' = data
  /\ opts' = o
  /\ todo' = allProductsToProcess(data, existing, o.enableUpdates)
  /\ results' = [NoResults EXCEPT !.total = Len(data)]
  /\ batches' = <<>>
  /\ bstate' = <<>>
  /\ bresult' = <<>>
  /\ outcome' = [x \in 1..Len(data) |-> "none"]
  /\ calls' = [x \in 1..Len(data) |-> 0]
  /\ recorded' = [x \in 1..Len(data) |-> "none"]
  /\ i' = 0
  /\ j' = 0
  /\ delays' = 0
  /\ pc' = IF Len(todo') > 0 THEN "csvBatch" ELSE "done"

CallProcessProductsFromCSV ==
  \E data \in Feeds, bs \in 1..MaxBatchSize, dry \in BOOLEAN,
     par \in BOOLEAN, upd \in BOOLEAN :
    /\ pc = "idle"
    /\ initialized
    /\ entry' = "csv"
    /\ CsvBegin(data,
                [opts EXCEPT !.batchSize = bs, !.dryRun = dry,
                             !.parallelBatch = par, !.enableUpdates = upd],
                remote)
    /\ UNCHANGED <<initialized, remote, run, rest>>

CurrentBatch == batches[Len(batches)]

\* the condition of line 626: another batch follows
MoreBatches == i + opts.batchSize < Len(todo)

\* lines 625-652: delay before the next batch, or return
EndOfBatch ==
  IF MoreBatches
    THEN pc' = "csvDelay" /\ delays' = delays + 1
    ELSE pc' = "done" /\ delays' = delays

\* lines 610-623: the next batch is sliced and handed to its executor (an
\* empty batch is left by its executor at once).  The loop is followed for
\* Len(todo) + 1 iterations: with a positive batchSize it ends before.
CsvStartBatch ==
  /\ pc = "csvBatch"
  /\ Len(batches) <= Len(todo)
  /\ LET batch == slice(todo, i, i + opts.batchSize)
     IN /\ batches' = Append(batches, batch)
        /\ IF opts.parallelBatch /\ ~dryRun(opts)
             THEN /\ Issue(IdxOf(batch))
                  /\ pc' = "csvAwaitBatch"
                  /\ UNCHANGED <<j, delays>>
             ELSE /\ UNCHANGED <<outcome, calls>>
                  /\ IF batch # <<>>
                       THEN pc' = "csvSeqItem" /\ j' = 1 /\ delays' = delays
                       ELSE j' = j /\ EndOfBatch
  /\ UNCHANGED <<entry, initialized, remote, csvData, opts, todo, i, bstate, bresult,
                 recorded, results, run, rest>>

\* processBatchParallelWithUpdates lines 768-806
CsvBatchSettled ==
  /\ pc = "csvAwaitBatch"
  /\ AllSettled(CurrentBatch)
  /\ results' =
       [results EXCEPT
          !.created = @ + Len(SelectSeq(CurrentBatch, IsOkCreate)),
          !.updated = @ + Len(SelectSeq(CurrentBatch, IsOkUpdate)),
          !.errors = @ + Len(SelectSeq(CurrentBatch, IsFail)),
          !.errorDetails = @ \o ItemErrors(CurrentBatch, "csvItem")]
  /\ Record(CurrentBatch)
  /\ EndOfBatch
  /\ UNCHANGED <<entry, initialized, remote, csvData, opts, todo, batches, i, j,
                 bstate, bresult, outcome, calls, run, rest>>

\* the timer of line 628 fires
CsvDelayElapsed ==
  /\ pc = "csvDelay"
  /\ i' = i + opts.batchSize
  /\ pc' = "csvBatch"
  /\ UNCHANGED <<entry, initialized, remote, csvData, opts, todo, batches, j, bstate,
                 bresult, outcome, calls, recorded, results, delays, run, rest>>

\* processBatchSequentialWithUpdates lines 811-818: the item at position j
\* is processed; in a dry run no call is issued and the result has a
\* 'dry-run-...' type
CsvSeqItem ==
  /\ pc = "csvSeqItem"
  /\ IF dryRun(opts)
       THEN /\ UNCHANGED <<outcome, calls>>
            /\ pc' = "csvSeqDelay"
       ELSE /\ Issue({CurrentBatch[j].idx})
            /\ pc' = "csvSeqAwait"
  /\ UNCHANGED <<entry, initialized, remote, csvData, opts, todo, batches, i, j,
                 bstate, bresult, recorded, results, delays, run, rest>>

\* the loop of processBatchSequentialWithUpdates steps to the next item, or
\* the batch is finished
NextSeq ==
  IF j < Len(CurrentBatch)
    THEN j' = j + 1 /\ pc' = "csvSeqItem" /\ delays' = delays
    ELSE j' = j /\ EndOfBatch

\* lines 820-841: the awaited call of the item has resolved
CsvSeqResult ==
  /\ pc = "csvSeqAwait"
  /\ LET op == CurrentBatch[j]
     IN /\ outcome[op.idx] \in {"ok", "fail"}
        /\ Record(<<op>>)
        /\ IF IsOk(op)
             THEN /\ results' =
                       [results EXCEPT
                          !.created = @ + (IF ActionOf(op) = "create" THEN 1 ELSE 0),
                          !.updated = @ + (IF ActionOf(op) = "update" THEN 1 ELSE 0)]
                  /\ pc' = "csvSeqDelay"
                  /\ UNCHANGED <<j, delays>>
             ELSE /\ results' =
                       [results EXCEPT
                          !.errors = @ + 1,
                          !.errorDetails = @ \o ItemErrors(<<op>>, "csvItem")]
                  /\ NextSeq
  /\ UNCHANGED <<entry, initialized, remote, csvData, opts, todo, batches, i,
                 bstate, bresult, outcome, calls, run, rest>>

\* the timer of line 831 fires
CsvSeqDelayElapsed ==
  /\ pc = "csvSeqDelay"
  /\ NextSeq
  /\ UNCHANGED <<entry, initialized, remote, csvData, opts, todo, batches, i,
                 bstate, bresult, outcome, calls, recorded, results, run, rest>>

\* the caller runs processProductsFromCSV again on the same feed with the
\* same options, against the catalog as the first run left it, after a run
\* in which no call failed
Rerun ==
  /\ pc = "done"
  /\ entry = "csv"
  /\ run = 1
  /\ \A x \in DOMAIN outcome : outcome[x] # "fail"
  /\ run' = 2
  /\ CsvBegin(csvData, opts, remote)
  /\ UNCHANGED <<entry, initialized, remote, rest>>

(***************************************************************************)
(* ShopifyClient.createProductsFromCSV, the legacy entry point.            *)
(***************************************************************************)
\* the options handed on unchanged
sameOptions(options) == options

\* lines 939-942: { ...options, enableUpdates: false }
newOptions(options) == [options EXCEPT !.enableUpdates = FALSE]

CallCreateProductsFromCSV ==
  \E data \in Feeds, bs \in 1..MaxBatchSize, dry \in BOOLEAN,
     par \in BOOLEAN, upd \in BOOLEAN :
    /\ pc = "idle"
    /\ initialized
    /\ entry' = "legacy"
    /\ CsvBegin(data,
                newOptions([opts EXCEPT !.batchSize = bs, !.dryRun = dry,
                                        !.parallelBatch = par, !.enableUpdates = upd]),
                remote)
    /\ UNCHANGED <<initialized, remote, run, rest>>

(***************************************************************************)
(* ProductDeleter (gx.js): deleteProductsByDate.                           *)
(***************************************************************************)
Date14 == <<"2", "0", "2", "5", "-", "1", "0", "-", "1", "4">>

Date16 == <<"2", "0", "2", "5", "-", "1", "0", "-", "1", "6">>

TimeOfDay == <<"T", "2", "1", ":", "0", "4">>

TargetDates == {Date14, Date16}

\* remote products as the deleter reads them: created on either date, or
\* without created_at
DatedProducts ==
  { [title |-> <<"R">>, created_at |-> Date14 \o TimeOfDay],
    [title |-> <<"S">>, created_at |-> Date16 \o TimeOfDay],
    [title |-> <<"T">>] }

DatedCatalogs ==
  UNION {{[n \in 1..len |-> [id |-> n] @@ c[n]] : c \in [1..len -> DatedProducts]} :
           len \in 0..MaxCatalog}

\* String.split(sep)[0]: the part before the first separator
RECURSIVE BeforeFirst(_, _)
BeforeFirst(str, sep) ==
  IF str = <<>> \/ Head(str) = sep THEN <<>>
  ELSE <<Head(str)>> \o BeforeFirst(Tail(str), sep)

\* the predicate of the filter written at lines 95-102
createdOn(product, date) ==
  /\ "created_at" \in DOMAIN product
  /\ product.created_at # <<>>
  /\ BeforeFirst(product.created_at, "T") = date

\* ProductDeleter.filterProductsByDate: line 94 returns the list it was
\* given; the filter that follows it is never reached
filterProductsByDate(products, date) == products

NoDeleteResults ==
  [total |-> 0, deleted |-> 0, errors |-> 0, skipped |-> 0, errorDetails |-> <<>>]

DeleterOptions ==
  [dryRun : BOOLEAN, batchSize : 1..MaxBatchSize, confirmBeforeDelete : BOOLEAN]

\* gx.js has been started: main is about to call deleteProductsByDate
DeleterInit ==
  /\ pc = "deleteStart"
  /\ entry = "deleter"
  /\ initialized = FALSE
  /\ remote \in DatedCatalogs
  /\ targetDate \in TargetDates
  /\ opts \in DeleterOptions
  /\ csvData = <<>>
  /\ todo = <<>>
  /\ batches = <<>>
  /\ i = 0
  /\ j = 0
  /\ bstate = <<>>
  /\ bresult = <<>>
  /\ outcome = <<>>
  /\ calls = <<>>
  /\ recorded = <<>>
  /\ results = NoDeleteResults
  /\ delays = 0
  /\ run = 1
  /\ decisions = <<>>
  /\ category = <<>>
  /\ categoryId = <<>>
  /\ currentPage = 0
  /\ consecutiveEmptyPages = 0
  /\ filtered = <<>>
  /\ evaluation = <<>>
  /\ analysis = <<>>
  /\ fetched = <<>>
  /\ allProducts = <<>>

\* lines 31-32: initialize() succeeded
DeleterInitialized ==
  /\ pc = "deleteStart"
  /\ initialized' = TRUE
  /\ pc' = "fetching"
  /\ UNCHANGED <<entry, remote, csvData, opts, todo, batches, i, j, bstate, bresult,
                 outcome, calls, recorded, results, delays, run, rest>>

\* initialize() or getAllProducts() failed: deleteProductsByDate rethrows
DeleterRejected ==
  /\ pc \in {"deleteStart", "fetching"}
  /\ pc' = "failed"
  /\ UNCHANGED <<entry, initialized, remote, csvData, opts, todo, batches, i, j,
                 bstate, bresult, outcome, calls, recorded, results, delays, run, rest>>

\* lines 35-75 for the list getAllProducts returned
DeleterFetched(allProducts_) ==
  LET targetProducts == filterProductsByDate(allProducts_, targetDate)
      items == [k \in 1..Len(targetProducts) |->
                  [idx |-> k, product |-> targetProducts[k], action |-> "delete"]]
  IN /\ pc = "fetching"
     /\ todo' = items
     /\ outcome' = [x \in 1..Len(items) |-> "none"]
     /\ calls' = [x \in 1..Len(items) |-> 0]
     /\ results' = [NoDeleteResults EXCEPT !.total = Len(items)]
     /\ pc' = IF Len(items) = 0 THEN "done"
              ELSE IF opts.confirmBeforeDelete /\ ~dryRun(opts) THEN "confirm"
              ELSE "deleteBatch"
     /\ UNCHANGED <<entry, initialized, remote, csvData, opts, batches, i, j, bstate,
                    bresult, recorded, delays, run, rest>>

\* getAllProducts returned the catalog, or the empty list after a 429
FetchAnswered ==
  \/ DeleterFetched(remote)
  \/ DeleterFetched(<<>>)

\* confirmDeletion has waited and returned true
Confirmed ==
  /\ pc = "confirm"
  /\ pc' = "deleteBatch"
  /\ UNCHANGED <<entry, initialized, remote, csvData, opts, todo, batches, i, j,
                 bstate, bresult, outcome, calls, recorded, results, delays, run, rest>>

\* processProductDeletions lines 155-163 and processBatchDeletion lines
\* 190-209: the next batch; in a dry run every item resolves without a call
DeleteStartBatch ==
  /\ pc = "deleteBatch"
  /\ LET batch == slice(todo, i, i + opts.batchSize)
     IN /\ batches' = Append(batches, batch)
        /\ IF dryRun(opts)
             THEN /\ outcome' = [x \in DOMAIN outcome |->
                                   IF x \in IdxOf(batch) THEN "ok" ELSE outcome[x]]
                  /\ calls' = calls
             ELSE Issue(IdxOf(batch))
  /\ pc' = "deleteAwaitBatch"
  /\ UNCHANGED <<entry, initialized, remote, csvData, opts, todo, i, j, bstate,
                 bresult, recorded, results, delays, run, rest>>

DeleteErrors(batch) ==
  LET failed == SelectSeq(batch, IsFail)
  IN [k \in 1..Len(failed) |->
        [productId |-> failed[k].product.id, title |-> failed[k].product.title,
         error |-> "call failed"]]

\* processBatchDeletion lines 212-245 and processProductDeletions lines
\* 176-184
DeleteBatchSettled ==
  /\ pc = "deleteAwaitBatch"
  /\ AllSettled(CurrentBatch)
  /\ results' =
       [results EXCEPT
          !.deleted = @ + Len(SelectSeq(CurrentBatch, IsOk)),
          !.errors = @ + Len(SelectSeq(CurrentBatch, IsFail)),
          !.errorDetails = @ \o DeleteErrors(CurrentBatch)]
  /\ IF i + opts.batchSize < Len(todo)
       THEN pc' = "deleteDelay" /\ delays' = delays + 1
       ELSE pc' = "done" /\ delays' = delays
  /\ UNCHANGED <<entry, initialized, remote, csvData, opts, todo, batches, i, j,
                 bstate, bresult, outcome, calls, recorded, run, rest>>

\* the timer of line 179 fires
DeleteDelayElapsed ==
  /\ pc = "deleteDelay"
  /\ i' = i + opts.batchSize
  /\ pc' = "deleteBatch"
  /\ UNCHANGED <<entry, initialized, remote, csvData, opts, todo, batches, j, bstate,
                 bresult, outcome, calls, recorded, results, delays, run, rest>>

DeleterNext ==
  \/ DeleterInitialized
  \/ DeleterRejected
  \/ FetchAnswered
  \/ Confirmed
  \/ DeleteStartBatch
  \/ DeleteBatchSettled
  \/ DeleteDelayElapsed
  \/ \E idx \in DOMAIN outcome : CallFails(idx)
  \/ \E idx \in DOMAIN outcome : CallSucceeds(idx)

DeleterSpec == DeleterInit /\ [][DeleterNext]_vars

(***************************************************************************)
(* OvernightMountingsAPIProcessor (processAPIProducts.js):                 *)
(* processProductsFromAPI.                                                 *)
(***************************************************************************)
MaxPage == 4

PriceMin == 1000

PriceMax == 2000

EmptyPagesLimit == 3

productClasses ==
  { <<"B", "R", "A", "C", "E", "L", "E", "T">>,
    <<"E", "A", "R", "R", "I", "N", "G", "S">>,
    <<"N", "E", "C", "K", "L", "A", "C", "E">>,
    <<"P", "E", "N", "D", "A", "N", "T">>,
    <<"R", "I", "N", "G">>,
    <<"C", "H", "A", "R", "M">>,
    <<"A", "N", "K", "L", "E", "T">>,
    <<"C", "H", "A", "I", "N">>,
    <<"S", "E", "T">> }

LowerToUpper ==
  [c \in {"a", "b", "c", "d", "e", "f", "g", "h", "i", "j", "k", "l",
           "m", "n", "o", "p", "q", "r", "s", "t", "u", "v", "w", "x", "y", "z"} |->
     CASE c = "a" -> "A" [] c = "b" -> "B" [] c = "c" -> "C" [] c = "d" -> "D"
       [] c = "e" -> "E" [] c = "f" -> "F" [] c = "g" -> "G" [] c = "h" -> "H"
       [] c = "i" -> "I" [] c = "j" -> "J" [] c = "k" -> "K" [] c = "l" -> "L"
       [] c = "m" -> "M" [] c = "n" -> "N" [] c = "o" -> "O" [] c = "p" -> "P"
       [] c = "q" -> "Q" [] c = "r" -> "R" [] c = "s" -> "S" [] c = "t" -> "T"
       [] c = "u" -> "U" [] c = "v" -> "V" [] c = "w" -> "W" [] c = "x" -> "X"
       [] c = "y" -> "Y" [] c = "z" -> "Z"]

toUpperCase(str) ==
  [k \in 1..Len(str) |-> IF str[k] \in DOMAIN LowerToUpper THEN LowerToUpper[str[k]]
                          ELSE str[k]]

RECURSIVE trimStart(_)
trimStart(str) ==
  IF str # <<>> /\ Head(str) = " " THEN trimStart(Tail(str)) ELSE str

RECURSIVE trimEnd(_)
trimEnd(str) ==
  IF str # <<>> /\ str[Len(str)] = " " THEN trimEnd(SubSeq(str, 1, Len(str) - 1))
  ELSE str

trim(str) == trimEnd(trimStart(str))

\* String.prototype.includes
includes(str, sub) ==
  \E k \in 0..(Len(str) - Len(sub)) : SubSeq(str, k + 1, k + Len(sub)) = sub

\* OvernightMountingsAPIProcessor.parsePrice, in hundredths; NaN stands for null
apiParsePrice(priceStr) ==
  IF priceStr = <<>> THEN NaN ELSE parseFloat(SelectSeq(priceStr, IsPriceChar))

\* typeofName is the JavaScript type of the name the feed delivered; a
\* number is held by its digits
ApiProduct(sku, name, finalprice, class) ==
  [sku |-> sku, name |-> name, typeofName |-> "string", description |-> <<>>,
   finalprice |-> finalprice, ProductClass |-> class]

\* a product that passes the filter and one priced below the minimum
ApiInRange == ApiProduct(<<"K">>, <<"N">>, <<"1", ",", "5", "0", "0", ".", "0", "0">>, <<"r", "i", "n", "g", " ">>)

ApiBelowMin == ApiProduct(<<"L">>, <<"M">>, <<"5", "0", "0">>, <<"R", "I", "N", "G">>)

\* a product the feed names with a number ("name": 925)
ApiNumericName ==
  [ApiProduct(<<"Q">>, <<"9", "2", "5">>, <<"1", "2", "0", "0">>, <<"R", "I", "N", "G">>)
     EXCEPT !.typeofName = "number"]

\* the products of a non-empty page of the feed
PageProducts == <<ApiInRange, ApiBelowMin>>

\* a page whose second product is named with a number
PageWithNumericName == <<ApiInRange, ApiNumericName>>

Pages == {PageProducts, PageWithNumericName}

\* the predicate of OvernightMountingsAPIProcessor.filterProducts
apiPasses(product) ==
  LET price == apiParsePrice(product.finalprice)
      productClass == trim(toUpperCase(product.ProductClass))
  IN /\ price # NaN
     /\ price >= 100 * PriceMin
     /\ price <= 100 * PriceMax
     /\ productClass # <<>>
     /\ productClass \in productClasses
     /\ product.sku # <<>>
     /\ product.name # <<>>

apiFilterProducts(products) == SelectSeq(products, apiPasses)

\* the fields of it that mapCSVToShopifyProduct reads in the product
\* mapAPIToShopifyProduct built: it has none of them
AsCsvItem(shopifyProduct) == Row(<<>>, <<>>, <<>>, <<>>, <<>>, "")

\* OvernightMountingsAPIProcessor.createVariant: the price is the parsed number (in hundredths), '0.00' when
\* there is none
apiCreateVariant(apiProduct) ==
  [sku |-> apiProduct.sku,
   price |-> IF apiParsePrice(apiProduct.finalprice) = NaN THEN 0
             ELSE apiParsePrice(apiProduct.finalprice),
   inventory_quantity |-> 0]

\* the tracked fields of mapAPIToShopifyProduct
mapAPIToShopifyProduct(apiProduct) ==
  [title |-> OrElse(apiProduct.name, OrElse(apiProduct.description, UntitledProduct)),
   status |-> "active",
   variants |-> <<apiCreateVariant(apiProduct)>>]

\* mapAPIToShopifyProduct throws: generateHandle (lines 507-515) calls
\* toLowerCase on a title that is truthy and not a string
mapAPIThrows(apiProduct) ==
  apiProduct.name # <<>> /\ apiProduct.typeofName # "string"

NoApiResults ==
  [totalFetched |-> 0, totalFiltered |-> 0, totalProcessed |-> 0, created |-> 0,
   updated |-> 0, errors |-> 0, pagesProcessed |-> 0, errorDetails |-> <<>>]

NoPageResults ==
  [total |-> 0, created |-> 0, updated |-> 0, errors |-> 0, errorDetails |-> <<>>]

\* maxPages 0 stands for null (no limit)
ApiOptions ==
  [startPage : {1}, maxPages : 0..1, batchSize : 1..MaxBatchSize, dryRun : BOOLEAN,
   enableFiltering : BOOLEAN]

\* processAPIProducts.js has been started: main is about to call
\* processProductsFromAPI
ApiInit ==
  /\ pc = "apiStart"
  /\ entry = "api"
  /\ initialized = FALSE
  /\ remote = <<>>
  /\ opts \in ApiOptions
  /\ currentPage = 1
  /\ consecutiveEmptyPages = 0
  /\ filtered = <<>>
  /\ evaluation = <<>>
  /\ analysis = <<>>
  /\ fetched = <<>>
  /\ allProducts = <<>>
  /\ csvData = <<>>
  /\ todo = <<>>
  /\ batches = <<>>
  /\ i = 0
  /\ j = 0
  /\ bstate = <<>>
  /\ bresult = NoPageResults
  /\ outcome = <<>>
  /\ calls = <<>>
  /\ recorded = <<>>
  /\ results = NoApiResults
  /\ delays = 0
  /\ run = 1
  /\ targetDate = <<>>
  /\ decisions = <<>>
  /\ category = <<>>
  /\ categoryId = <<>>

\* lines 67-72: initialize() succeeded
ApiInitialized ==
  /\ pc = "apiStart"
  /\ initialized' = TRUE
  /\ pc' = "apiFetch"
  /\ UNCHANGED <<entry, remote, csvData, opts, todo, batches, i, j, bstate, bresult,
                 outcome, calls, recorded, results, delays, run, rest>>

\* initialize() failed: processProductsFromAPI rethrows
ApiRejected ==
  /\ pc = "apiStart"
  /\ pc' = "failed"
  /\ UNCHANGED <<entry, initialized, remote, csvData, opts, todo, batches, i, j,
                 bstate, bresult, outcome, calls, recorded, results, delays, run, rest>>

\* lines 130-141: the stopping conditions after a page, then the page delay
NextPage ==
  /\ currentPage' = currentPage + 1
  /\ IF opts.maxPages # 0 /\ (currentPage + 1) - opts.startPage >= opts.maxPages
       THEN pc' = "done"
       ELSE pc' = "apiPageDelay"

\* the messages of the errors fetchPageFromAPI throws (lines 199-210)
ApiErrorMessages ==
  {<<"A", "P", "I", " ", "E", "r", "r", "o", "r", " ", "4", "0", "4", ":", " ", "N", "o", "t", " ", "F", "o", "u", "n", "d">>,
   <<"A", "P", "I", " ", "E", "r", "r", "o", "r", " ", "4", "0", "1", ":", " ", "U", "n", "a", "u", "t", "h", "o", "r", "i", "z", "e", "d">>,
   <<"A", "P", "I", " ", "E", "r", "r", "o", "r", " ", "4", "0", "3", ":", " ", "u", "n", "a", "u", "t", "h", "o", "r", "i", "z", "e", "d">>,
   <<"A", "P", "I", " ", "r", "e", "q", "u", "e", "s", "t", " ", "t", "i", "m", "e", "o", "u", "t">>,
   <<"C", "a", "n", "n", "o", "t", " ", "c", "o", "n", "n", "e", "c", "t", " ", "t", "o", " ", "A", "P", "I", " ", "-", " ", "c", "h", "e", "c", "k", " ", "n", "e", "t", "w", "o", "r", "k", " ", "c", "o", "n", "n", "e", "c", "t", "i", "o", "n">>}

\* a test of the message that ignores its case
criticalAnyCase(message) ==
  includes(toLowerCase(message), <<"4", "0", "4">>) \/ includes(toLowerCase(message), <<"u", "n", "a", "u", "t", "h", "o", "r", "i", "z", "e", "d">>)

\* line 153: the error stops the pagination
critical(message) ==
  includes(message, <<"4", "0", "4">>) \/ includes(message, <<"u", "n", "a", "u", "t", "h", "o", "r", "i", "z", "e", "d">>)

\* the answer of the call of fetchPageFromAPI that is pending
Answered(answer) ==
  [fetched EXCEPT ![Len(fetched)] = [page |-> currentPage, answer |-> answer]]

\* line 80: fetchPageFromAPI(currentPage) is called
ApiFetchPage ==
  /\ pc = "apiFetch"
  /\ currentPage <= MaxPage
  /\ fetched' = Append(fetched, [page |-> currentPage, answer |-> "pending"])
  /\ pc' = "apiAwaitPage"
  /\ UNCHANGED <<entry, initialized, remote, csvData, opts, todo, batches, i, j,
                 bstate, bresult, outcome, calls, recorded, results, delays, run,
                 targetDate, decisions, category, categoryId, currentPage,
                 consecutiveEmptyPages, filtered, evaluation, analysis,
                 allProducts>>

\* a loop that stops only after a fourth consecutive empty page
ApiPageEmptyLate ==
  /\ pc = "apiAwaitPage"
  /\ fetched' = Answered("empty")
  /\ consecutiveEmptyPages' = consecutiveEmptyPages + 1
  /\ IF consecutiveEmptyPages + 1 > EmptyPagesLimit
       THEN pc' = "done" /\ currentPage' = currentPage
       ELSE NextPage
  /\ UNCHANGED <<entry, initialized, remote, csvData, opts, todo, batches, i, j,
                 bstate, bresult, outcome, calls, recorded, results, delays, run,
                 targetDate, decisions, category, categoryId, filtered, evaluation,
                 analysis, allProducts>>

\* lines 81-90: the page fetched is empty
ApiPageEmpty ==
  /\ pc = "apiAwaitPage"
  /\ fetched' = Answered("empty")
  /\ consecutiveEmptyPages' = consecutiveEmptyPages + 1
  /\ IF consecutiveEmptyPages + 1 >= EmptyPagesLimit
       THEN pc' = "done" /\ currentPage' = currentPage
       ELSE NextPage
  /\ UNCHANGED <<entry, initialized, remote, csvData, opts, todo, batches, i, j,
                 bstate, bresult, outcome, calls, recorded, results, delays, run,
                 targetDate, decisions, category, categoryId, filtered, evaluation,
                 analysis, allProducts>>

\* lines 91-128: the page fetched holds products
ApiPageFetched ==
  \E products \in Pages :
  LET productsToProcess ==
        IF opts.enableFiltering THEN apiFilterProducts(products) ELSE products
      items == [k \in 1..Len(productsToProcess) |->
                  [idx |-> k, apiProduct |-> productsToProcess[k],
                   csvItem |-> AsCsvItem(mapAPIToShopifyProduct(productsToProcess[k])),
                   product |-> mapAPIToShopifyProduct(productsToProcess[k])]]
  IN /\ pc = "apiAwaitPage"
     /\ fetched' = Answered("products")
     /\ consecutiveEmptyPages' = 0
     /\ results' = [results EXCEPT
                      !.totalFetched = @ + Len(products),
                      !.pagesProcessed = @ + 1,
                      !.totalFiltered = @ + Len(productsToProcess)]
     /\ IF Len(productsToProcess) > 0
          THEN /\ todo' = items
               /\ batches' = <<>>
               /\ i' = 0
               /\ bresult' = [NoPageResults EXCEPT !.total = Len(items)]
               /\ outcome' = [x \in 1..Len(items) |-> "none"]
               /\ calls' = [x \in 1..Len(items) |-> 0]
               /\ pc' = "apiBatch"
               /\ currentPage' = currentPage
          ELSE /\ NextPage
               /\ UNCHANGED <<todo, batches, i, bresult, outcome, calls>>
     /\ UNCHANGED <<entry, initialized, remote, csvData, opts, j, bstate, recorded,
                    delays, run, targetDate, decisions, category, categoryId,
                    filtered, evaluation, analysis,
                 allProducts>>

\* lines 143-158: the fetch failed; a message with '404' or 'unauthorized'
\* stops the pagination, any other goes on with the next page at once
ApiPageError(message) ==
  /\ pc = "apiAwaitPage"
  /\ fetched' = Answered(IF critical(message) THEN "critical" ELSE "error")
  /\ results' = [results EXCEPT
                   !.errors = @ + 1,
                   !.errorDetails =
                      Append(@, [type |-> "page_error", page |-> currentPage,
                                 error |-> message])]
  /\ IF critical(message)
       THEN pc' = "done" /\ currentPage' = currentPage
       ELSE pc' = "apiFetch" /\ currentPage' = currentPage + 1
  /\ UNCHANGED <<entry, initialized, remote, csvData, opts, todo, batches, i, j,
                 bstate, bresult, outcome, calls, recorded, delays, run,
                 targetDate, decisions, category, categoryId, consecutiveEmptyPages,
                 filtered, evaluation, analysis,
                 allProducts>>

\* batch.map of line 270 throws: building the payload of a product of the
\* batch throws
MapThrowsIn(batch) == \E k \in 1..Len(batch) : mapAPIThrows(batch[k].apiProduct)

\* the errorDetails of the catch of lines 280-288: one for every product of
\* the batch
BatchFailureDetails(batch) ==
  [k \in 1..Len(batch) |-> [item |-> batch[k].apiProduct.sku, error |-> "Batch failure"]]

\* processProductsBatch lines 260-271 and processBatchDirect lines 480-499:
\* the next batch; in a dry run every item resolves without a call
ApiStartBatch ==
  /\ pc = "apiBatch"
  /\ ~ MapThrowsIn(slice(todo, i, i + opts.batchSize))
  /\ LET batch == slice(todo, i, i + opts.batchSize)
     IN /\ batches' = Append(batches, batch)
        /\ IF dryRun(opts)
             THEN /\ outcome' = [x \in DOMAIN outcome |->
                                   IF x \in IdxOf(batch) THEN "ok" ELSE outcome[x]]
                  /\ calls' = calls
             ELSE Issue(IdxOf(batch))
  /\ pc' = "apiAwaitBatch"
  /\ UNCHANGED <<entry, initialized, remote, csvData, opts, todo, i, j, bstate,
                 bresult, recorded, results, delays, run, rest>>

\* the page results after the batch at hand
PageResultsWith(batch) ==
  [bresult EXCEPT
     !.created = @ + DirectResults(batch).created,
     !.errors = @ + DirectResults(batch).errors,
     !.errorDetails = @ \o DirectResults(batch).errorDetails]

\* processProductsBatch lines 293-298: the delay before the next batch, or,
\* after the last batch of the page, processProductsFromAPI lines 117-141
ApiAfterBatch ==
  IF i + opts.batchSize < Len(todo)
    THEN /\ pc' = "apiBatchDelay"
         /\ UNCHANGED <<results, currentPage>>
    ELSE /\ results' = [results EXCEPT
                          !.totalProcessed = @ + bresult'.total,
                          !.created = @ + bresult'.created,
                          !.updated = @ + bresult'.updated,
                          !.errors = @ + bresult'.errors,
                          !.errorDetails = @ \o bresult'.errorDetails]
         /\ NextPage

\* processProductsBatch lines 268-270 and 280-288: the payload of a product
\* of the batch cannot be built; the catch counts every product of the batch
\* as an error and processBatchDirect is not called
ApiBatchThrows ==
  /\ pc = "apiBatch"
  /\ MapThrowsIn(slice(todo, i, i + opts.batchSize))
  /\ LET batch == slice(todo, i, i + opts.batchSize)
     IN /\ batches' = Append(batches, batch)
        /\ bresult' = [bresult EXCEPT
                         !.errors = @ + Len(batch),
                         !.errorDetails = @ \o BatchFailureDetails(batch)]
  /\ ApiAfterBatch
  /\ UNCHANGED <<entry, initialized, remote, csvData, opts, todo, i, j, bstate,
                 outcome, calls, recorded, delays, run,
                 targetDate, decisions, category, categoryId, consecutiveEmptyPages,
                 more>>

\* processBatchDirect lines 502-527 and processProductsBatch lines 273-278
ApiBatchSettled ==
  /\ pc = "apiAwaitBatch"
  /\ AllSettled(CurrentBatch)
  /\ bresult' = PageResultsWith(CurrentBatch)
  /\ ApiAfterBatch
  /\ UNCHANGED <<entry, initialized, remote, csvData, opts, todo, batches, i, j,
                 bstate, outcome, calls, recorded, delays, run,
                 targetDate, decisions, category, categoryId, consecutiveEmptyPages,
                 more>>

\* the timer of line 296 fires
ApiBatchDelayElapsed ==
  /\ pc = "apiBatchDelay"
  /\ i' = i + opts.batchSize
  /\ pc' = "apiBatch"
  /\ UNCHANGED <<entry, initialized, remote, csvData, opts, todo, batches, j, bstate,
                 bresult, outcome, calls, recorded, results, delays, run, rest>>

\* the timer of line 140 fires
ApiPageDelayElapsed ==
  /\ pc = "apiPageDelay"
  /\ pc' = "apiFetch"
  /\ UNCHANGED <<entry, initialized, remote, csvData, opts, todo, batches, i, j,
                 bstate, bresult, outcome, calls, recorded, results, delays, run, rest>>

ApiNext ==
  \/ ApiInitialized
  \/ ApiRejected
  \/ ApiFetchPage
  \/ ApiPageEmpty
  \/ ApiPageFetched
  \/ \E message \in ApiErrorMessages : ApiPageError(message)
  \/ ApiStartBatch
  \/ ApiBatchThrows
  \/ ApiBatchSettled
  \/ ApiBatchDelayElapsed
  \/ ApiPageDelayElapsed
  \/ \E idx \in DOMAIN outcome : CallFails(idx)
  \/ \E idx \in DOMAIN outcome : CallSucceeds(idx)

ApiSpec == ApiInit /\ [][ApiNext]_vars

\* The requests after page MaxPage.  Only finitely many pages carry products:
\* a later request is answered with an empty page or with an error.  The
\* page number, the history of the calls and the tally of the errors are held
\* at what they were after page MaxPage; with maxPages at most MaxPage none
\* of them bears on the way the loop goes on.
ApiFetchLater ==
  /\ pc = "apiFetch"
  /\ currentPage > MaxPage
  /\ pc' = "apiAwaitLater"
  /\ UNCHANGED <<entry, initialized, remote, csvData, opts, todo, batches, i, j,
                 bstate, bresult, outcome, calls, recorded, results, delays, run, rest>>

\* lines 81-90 and 130-141 for a later request
ApiLaterEmpty ==
  /\ pc = "apiAwaitLater"
  /\ consecutiveEmptyPages' = consecutiveEmptyPages + 1
  /\ IF consecutiveEmptyPages + 1 >= EmptyPagesLimit
         \/ (opts.maxPages # 0 /\ (currentPage + 1) - opts.startPage >= opts.maxPages)
       THEN pc' = "done"
       ELSE pc' = "apiPageDelay"
  /\ UNCHANGED <<entry, initialized, remote, csvData, opts, todo, batches, i, j,
                 bstate, bresult, outcome, calls, recorded, results, delays, run,
                 targetDate, decisions, category, categoryId, currentPage, more>>

\* lines 143-158 for a later request
ApiLaterError(message) ==
  /\ pc = "apiAwaitLater"
  /\ IF critical(message) THEN pc' = "done" ELSE pc' = "apiFetch"
  /\ UNCHANGED <<entry, initialized, remote, csvData, opts, todo, batches, i, j,
                 bstate, bresult, outcome, calls, recorded, results, delays, run, rest>>

ApiLiveNext ==
  \/ ApiNext
  \/ ApiFetchLater
  \/ ApiLaterEmpty
  \/ \E message \in ApiErrorMessages : ApiLaterError(message)

\* every request is answered, every timer fires, every remote call resolves
ApiLiveSpec == ApiInit /\ [][ApiLiveNext]_vars /\ WF_vars(ApiLiveNext)

(***************************************************************************)
(* processProductsFromCSV called with any batchSize, also a non-positive   *)
(* one.                                                                    *)
(***************************************************************************)
BatchSizes == (0 - 1)..MaxBatchSize

CallWithBatchSize ==
  \E data \in Feeds, bs \in BatchSizes, dry \in BOOLEAN, par \in BOOLEAN :
    /\ pc = "idle"
    /\ initialized
    /\ entry' = "csv"
    /\ CsvBegin(data,
                [opts EXCEPT !.batchSize = bs, !.dryRun = dry, !.parallelBatch = par],
                remote)
    /\ UNCHANGED <<initialized, remote, run, rest>>

ConfigNext ==
  \/ Initialize
  \/ CallWithBatchSize
  \/ CsvStartBatch
  \/ CsvBatchSettled
  \/ CsvDelayElapsed
  \/ CsvSeqItem
  \/ CsvSeqResult
  \/ CsvSeqDelayElapsed
  \/ \E idx \in DOMAIN outcome : CallFails(idx)
  \/ \E idx \in DOMAIN outcome : CallSucceeds(idx)

ConfigSpec == Init /\ [][ConfigNext]_vars

(***************************************************************************)
(* ShopifyClient.categorizeProducts on its own: the index build of         *)
(* processProductsFromCSV and the categorisation, for one feed, one        *)
(* catalog and one setting of enableUpdates.                               *)
(***************************************************************************)
ReconcileInit ==
  /\ pc = "categorize"
  /\ entry = "csv"
  /\ initialized = TRUE
  /\ remote \in ReconCatalogs
  /\ csvData \in Feeds
  /\ opts \in {[NoOpts EXCEPT !.enableUpdates = upd] : upd \in BOOLEAN}
  /\ todo = <<>>
  /\ batches = <<>>
  /\ i = 0
  /\ j = 0
  /\ bstate = <<>>
  /\ bresult = <<>>
  /\ outcome = <<>>
  /\ calls = <<>>
  /\ recorded = <<>>
  /\ results = NoResults
  /\ delays = 0
  /\ run = 1
  /\ targetDate = <<>>
  /\ decisions = <<>>
  /\ category = <<>>
  /\ categoryId = <<>>
  /\ currentPage = 0
  /\ consecutiveEmptyPages = 0
  /\ filtered = <<>>
  /\ evaluation = <<>>
  /\ analysis = <<>>
  /\ fetched = <<>>
  /\ allProducts = <<>>

\* lines 593-607: categorizeProducts and the list handed to the batch loop
Categorize ==
  /\ pc = "categorize"
  /\ decisions' = [k \in 1..Len(csvData) |->
                     Decision(csvData, k, remote, opts.enableUpdates)]
  /\ todo' = allProductsToProcess(csvData, remote, opts.enableUpdates)
  /\ pc' = "categorized"
  /\ UNCHANGED <<entry, initialized, remote, csvData, opts, batches, i, j, bstate,
                 bresult, outcome, calls, recorded, results, delays, run,
                 targetDate, category, categoryId, currentPage,
                 consecutiveEmptyPages, more>>

ReconcileNext == Categorize

ReconcileSpec == ReconcileInit /\ [][ReconcileNext]_vars

(***************************************************************************)
(* Specification.                                                          *)
(***************************************************************************)
\* steps the event loop takes by itself: continuations and timers
Internal ==
  \/ StartWindow
  \/ \E b \in DOMAIN bstate : BatchSettled(b)
  \/ WindowAggregate
  \/ DelayElapsed
  \/ CsvStartBatch
  \/ CsvBatchSettled
  \/ CsvDelayElapsed
  \/ CsvSeqItem
  \/ CsvSeqResult
  \/ CsvSeqDelayElapsed

\* answers of the remote service
Remote ==
  \/ \E idx \in DOMAIN outcome : CallFails(idx)
  \/ \E idx \in DOMAIN outcome : CallSucceeds(idx)
  \/ \E b \in DOMAIN bstate : InitializeFail(b)
  \/ \E b \in DOMAIN bstate : InitializeOK(b)

\* calls of the entry points
Caller ==
  \/ Initialize
  \/ CallProcessBatchedProducts
  \/ CallProcessProductsFromCSV
  \/ Rerun

Next == Internal \/ Remote \/ Caller

Spec == Init /\ [][Next]_vars

\* every pending continuation and timer runs, every remote call resolves
LiveSpec == Spec /\ WF_vars(Internal) /\ WF_vars(Remote)

(***************************************************************************)
(* ShopifyClient.getCategoryId and findBestCategoryMatch.                  *)
(***************************************************************************)
\* chain types filed under a category of their own
chainEntriesApart ==
  <<<<<<"c", "h", "a", "i", "n", "s">>, "gid://shopify/TaxonomyCategory/aa-6-13">>,
    <<<<"c", "h", "a", "i", "n">>, "gid://shopify/TaxonomyCategory/aa-6-13">>,
    <<<<"r", "o", "p", "e", " ", "c", "h", "a", "i", "n", "s">>, "gid://shopify/TaxonomyCategory/aa-6-13">>,
    <<<<"r", "o", "p", "e", " ", "c", "h", "a", "i", "n">>, "gid://shopify/TaxonomyCategory/aa-6-13">>,
    <<<<"c", "u", "r", "b", " ", "c", "h", "a", "i", "n", "s">>, "gid://shopify/TaxonomyCategory/aa-6-13">>,
    <<<<"c", "u", "r", "b", " ", "c", "h", "a", "i", "n">>, "gid://shopify/TaxonomyCategory/aa-6-13">>,
    <<<<"c", "a", "b", "l", "e", " ", "c", "h", "a", "i", "n", "s">>, "gid://shopify/TaxonomyCategory/aa-6-13">>,
    <<<<"c", "a", "b", "l", "e", " ", "c", "h", "a", "i", "n">>, "gid://shopify/TaxonomyCategory/aa-6-13">>>>

\* lines 155-163: the additional mappings for chain types
chainEntries ==
  <<<<<<"c", "h", "a", "i", "n", "s">>, "gid://shopify/TaxonomyCategory/aa-6-8">>,
    <<<<"c", "h", "a", "i", "n">>, "gid://shopify/TaxonomyCategory/aa-6-8">>,
    <<<<"r", "o", "p", "e", " ", "c", "h", "a", "i", "n", "s">>, "gid://shopify/TaxonomyCategory/aa-6-8">>,
    <<<<"r", "o", "p", "e", " ", "c", "h", "a", "i", "n">>, "gid://shopify/TaxonomyCategory/aa-6-8">>,
    <<<<"c", "u", "r", "b", " ", "c", "h", "a", "i", "n", "s">>, "gid://shopify/TaxonomyCategory/aa-6-8">>,
    <<<<"c", "u", "r", "b", " ", "c", "h", "a", "i", "n">>, "gid://shopify/TaxonomyCategory/aa-6-8">>,
    <<<<"c", "a", "b", "l", "e", " ", "c", "h", "a", "i", "n", "s">>, "gid://shopify/TaxonomyCategory/aa-6-8">>,
    <<<<"c", "a", "b", "l", "e", " ", "c", "h", "a", "i", "n">>, "gid://shopify/TaxonomyCategory/aa-6-8">>>>

\* the entries of categoryMap, in insertion order
categoryMap ==
  <<<<<<"a", "n", "k", "l", "e", "t", "s">>, "gid://shopify/TaxonomyCategory/aa-6-1">>,
    <<<<"a", "n", "k", "l", "e", "t">>, "gid://shopify/TaxonomyCategory/aa-6-1">>,
    <<<<"b", "o", "d", "y", " ", "j", "e", "w", "e", "l", "r", "y">>, "gid://shopify/TaxonomyCategory/aa-6-2">>,
    <<<<"b", "o", "d", "y">>, "gid://shopify/TaxonomyCategory/aa-6-2">>,
    <<<<"b", "r", "a", "c", "e", "l", "e", "t", "s">>, "gid://shopify/TaxonomyCategory/aa-6-3">>,
    <<<<"b", "r", "a", "c", "e", "l", "e", "t">>, "gid://shopify/TaxonomyCategory/aa-6-3">>,
    <<<<"b", "r", "o", "o", "c", "h", "e", "s">>, "gid://shopify/TaxonomyCategory/aa-6-4">>,
    <<<<"b", "r", "o", "o", "c", "h">>, "gid://shopify/TaxonomyCategory/aa-6-4">>,
    <<<<"l", "a", "p", "e", "l", " ", "p", "i", "n", "s">>, "gid://shopify/TaxonomyCategory/aa-6-4">>,
    <<<<"l", "a", "p", "e", "l", " ", "p", "i", "n">>, "gid://shopify/TaxonomyCategory/aa-6-4">>,
    <<<<"c", "h", "a", "r", "m", "s">>, "gid://shopify/TaxonomyCategory/aa-6-5">>,
    <<<<"c", "h", "a", "r", "m">>, "gid://shopify/TaxonomyCategory/aa-6-5">>,
    <<<<"p", "e", "n", "d", "a", "n", "t", "s">>, "gid://shopify/TaxonomyCategory/aa-6-5">>,
    <<<<"p", "e", "n", "d", "a", "n", "t">>, "gid://shopify/TaxonomyCategory/aa-6-5">>,
    <<<<"e", "a", "r", "r", "i", "n", "g", "s">>, "gid://shopify/TaxonomyCategory/aa-6-6">>,
    <<<<"e", "a", "r", "r", "i", "n", "g">>, "gid://shopify/TaxonomyCategory/aa-6-6">>,
    <<<<"j", "e", "w", "e", "l", "r", "y", " ", "s", "e", "t", "s">>, "gid://shopify/TaxonomyCategory/aa-6-7">>,
    <<<<"j", "e", "w", "e", "l", "r", "y", " ", "s", "e", "t">>, "gid://shopify/TaxonomyCategory/aa-6-7">>,
    <<<<"s", "e", "t", "s">>, "gid://shopify/TaxonomyCategory/aa-6-7">>,
    <<<<"s", "e", "t">>, "gid://shopify/TaxonomyCategory/aa-6-7">>,
    <<<<"n", "e", "c", "k", "l", "a", "c", "e", "s">>, "gid://shopify/TaxonomyCategory/aa-6-8">>,
    <<<<"n", "e", "c", "k", "l", "a", "c", "e">>, "gid://shopify/TaxonomyCategory/aa-6-8">>,
    <<<<"c", "h", "a", "i", "n", " ", "n", "e", "c", "k", "l", "a", "c", "e", "s">>, "gid://shopify/TaxonomyCategory/aa-6-8">>,
    <<<<"c", "h", "a", "i", "n", " ", "n", "e", "c", "k", "l", "a", "c", "e">>, "gid://shopify/TaxonomyCategory/aa-6-8">>,
    <<<<"r", "i", "n", "g", "s">>, "gid://shopify/TaxonomyCategory/aa-6-9">>,
    <<<<"r", "i", "n", "g">>, "gid://shopify/TaxonomyCategory/aa-6-9">>,
    <<<<"s", "m", "a", "r", "t", " ", "w", "a", "t", "c", "h", "e", "s">>, "gid://shopify/TaxonomyCategory/aa-6-12">>,
    <<<<"s", "m", "a", "r", "t", " ", "w", "a", "t", "c", "h">>, "gid://shopify/TaxonomyCategory/aa-6-12">>,
    <<<<"w", "a", "t", "c", "h", " ", "a", "c", "c", "e", "s", "s", "o", "r", "i", "e", "s">>, "gid://shopify/TaxonomyCategory/aa-6-10">>,
    <<<<"w", "a", "t", "c", "h", " ", "a", "c", "c", "e", "s", "s", "o", "r", "y">>, "gid://shopify/TaxonomyCategory/aa-6-10">>,
    <<<<"w", "a", "t", "c", "h", " ", "b", "a", "n", "d", "s">>, "gid://shopify/TaxonomyCategory/aa-6-10-1">>,
    <<<<"w", "a", "t", "c", "h", " ", "b", "a", "n", "d">>, "gid://shopify/TaxonomyCategory/aa-6-10-1">>,
    <<<<"w", "a", "t", "c", "h", " ", "s", "t", "i", "c", "k", "e", "r", "s">>, "gid://shopify/TaxonomyCategory/aa-6-10-2">>,
    <<<<"w", "a", "t", "c", "h", " ", "d", "e", "c", "a", "l", "s">>, "gid://shopify/TaxonomyCategory/aa-6-10-2">>,
    <<<<"w", "a", "t", "c", "h", " ", "s", "t", "i", "c", "k", "e", "r", "s", " ", "&", " ", "d", "e", "c", "a", "l", "s">>, "gid://shopify/TaxonomyCategory/aa-6-10-2">>,
    <<<<"w", "a", "t", "c", "h", " ", "w", "i", "n", "d", "e", "r", "s">>, "gid://shopify/TaxonomyCategory/aa-6-10-3">>,
    <<<<"w", "a", "t", "c", "h", " ", "w", "i", "n", "d", "e", "r">>, "gid://shopify/TaxonomyCategory/aa-6-10-3">>,
    <<<<"w", "a", "t", "c", "h", "e", "s">>, "gid://shopify/TaxonomyCategory/aa-6-11">>,
    <<<<"w", "a", "t", "c", "h">>, "gid://shopify/TaxonomyCategory/aa-6-11">>>>
    \o chainEntries

defaultJewelryCategory == "gid://shopify/TaxonomyCategory/aa-6-8"

\* null, as an identifier no entry has
Null == "null"

\* String.prototype.split on a set of one-character separators
RECURSIVE split(_, _)
split(str, seps) ==
  IF \A k \in 1..Len(str) : str[k] \notin seps THEN <<str>>
  ELSE LET k == CHOOSE k \in 1..Len(str) :
                  str[k] \in seps /\ \A m \in 1..(k - 1) : str[m] \notin seps
       IN <<SubSeq(str, 1, k - 1)>> \o split(SubSeq(str, k + 1, Len(str)), seps)

\* the separators of the pattern /[\\\/\>\|]/
Separators == {"\\", "/", ">", "|"}

NotBackslash(c) == c # "\\"

NotEmpty(str) == str # <<>>

NotNull(id) == id # Null

reverse(seq) == [k \in 1..Len(seq) |-> seq[Len(seq) + 1 - k]]

\* categoryMap.has and categoryMap.get
has(term) == \E n \in 1..Len(categoryMap) : categoryMap[n][1] = term

get(term) ==
  categoryMap[CHOOSE n \in 1..Len(categoryMap) : categoryMap[n][1] = term][2]

\* the entries whose keyword the term contains or that contain the term
Related(term) ==
  {n \in 1..Len(categoryMap) :
     includes(term, categoryMap[n][1]) \/ includes(categoryMap[n][1], term)}

\* the last related entry in place of the first
termMatchLast(term) ==
  IF has(term) THEN get(term)
  ELSE IF Related(term) # {}
    THEN categoryMap[CHOOSE n \in Related(term) : \A m \in Related(term) : m <= n][2]
    ELSE Null

\* lines 1108-1119: what one term resolves to
termMatch(term) ==
  IF has(term) THEN get(term)
  ELSE IF Related(term) # {}
    THEN categoryMap[CHOOSE n \in Related(term) : \A m \in Related(term) : n <= m][2]
    ELSE Null

\* lines 1122-1127: the first keyword the whole path contains
pathMatch(cleanPath) ==
  LET hits == {n \in 1..Len(categoryMap) : includes(cleanPath, categoryMap[n][1])}
  IN IF hits # {} THEN categoryMap[CHOOSE n \in hits : \A m \in hits : n <= m][2]
     ELSE Null

findBestCategoryMatch(categoryPath) ==
  IF categoryPath = <<>> THEN Null
  ELSE LET cleanPath == SelectSeq(toLowerCase(trim(categoryPath)), NotBackslash)
           parts == split(cleanPath, Separators)
           categoryTerms ==
             SelectSeq([k \in 1..Len(parts) |-> trim(parts[k])], NotEmpty)
           reversed == reverse(categoryTerms)
           found == SelectSeq([k \in 1..Len(reversed) |-> termMatch(reversed[k])],
                              NotNull)
       IN IF found # <<>> THEN found[1] ELSE pathMatch(cleanPath)

\* a resolver without the default
getCategoryIdNoDefault(Categories) ==
  IF Categories = <<>> THEN Null
  ELSE findBestCategoryMatch(split(Categories, {";"})[1])

\* getCategoryId of a record whose Categories field is the given string
\* (the empty string stands for a field that is missing, too)
getCategoryId(Categories) ==
  IF Categories = <<>> THEN defaultJewelryCategory
  ELSE LET categories == split(Categories, {";"})
           found == SelectSeq([k \in 1..Len(categories) |->
                                 findBestCategoryMatch(categories[k])], NotNull)
       IN IF found # <<>> THEN found[1] ELSE defaultJewelryCategory

MaxSegments == 2

MaxCalls == 2

\* the two alternative paths of the sample record of testGraphQL
SampleFirst ==
  <<"\\", "J", "e", "w", "e", "l", "r", "y", "\\", "N", "e", "c", "k", "l", "a", "c", "e", "s", "\\", "C", "h", "a", "i", "n", " ", "N", "e", "c", "k", "l", "a", "c", "e", "s", "\\", "R", "o", "p", "e", " ", "C", "h", "a", "i", "n", " ", "N", "e", "c", "k", "l", "a", "c", "e", "s">>

SampleSecond ==
  <<"\\", "J", "e", "w", "e", "l", "r", "y", "\\", "C", "h", "a", "i", "n", "s", "\\", "R", "o", "p", "e", " ", "C", "h", "a", "i", "n", "s", "\\", "R", "o", "p", "e", " ", "C", "h", "a", "i", "n">>

SampleCategories == SampleFirst \o <<";">> \o SampleSecond

Segments ==
  { <<"J", "e", "w", "e", "l", "r", "y">>,
    <<"R", "o", "p", "e", " ", "C", "h", "a", "i", "n">>,
    <<" ", "R", "i", "n", "g", "s">>,
    <<"G", "o", "l", "d">>,
    <<"H", "o", "o", "p", " ", "E", "a", "r", "r", "i", "n", "g", "s">> }

RECURSIVE join(_, _)
join(segs, sep) ==
  IF Len(segs) = 1 THEN segs[1]
  ELSE segs[1] \o <<sep>> \o join(Tail(segs), sep)

SegmentLists == UNION {[1..n -> Segments] : n \in 1..MaxSegments}

\* paths with and without a leading separator
Paths ==
  {join(segs, sep) : segs \in SegmentLists, sep \in Separators}
    \cup {<<sep>> \o join(segs, sep) : segs \in SegmentLists, sep \in Separators}

CategoryStrings ==
  {<<>>, <<" ">>, <<";">>, SampleFirst, SampleSecond, SampleCategories}
    \cup Paths
    \cup {p \o <<";">> \o q : p \in Paths, q \in Segments}

\* a record is about to be mapped: getCategoryId is called on its Categories
ResolverInit ==
  /\ pc = "resolve"
  /\ entry = "resolver"
  /\ category \in CategoryStrings
  /\ categoryId = <<>>
  /\ initialized = FALSE
  /\ remote = <<>>
  /\ csvData = <<>>
  /\ opts = NoOpts
  /\ todo = <<>>
  /\ batches = <<>>
  /\ i = 0
  /\ j = 0
  /\ bstate = <<>>
  /\ bresult = <<>>
  /\ outcome = <<>>
  /\ calls = <<>>
  /\ recorded = <<>>
  /\ results = NoResults
  /\ delays = 0
  /\ run = 1
  /\ targetDate = <<>>
  /\ decisions = <<>>
  /\ currentPage = 0
  /\ consecutiveEmptyPages = 0
  /\ filtered = <<>>
  /\ evaluation = <<>>
  /\ analysis = <<>>
  /\ fetched = <<>>
  /\ allProducts = <<>>

\* one call of getCategoryId; categoryId collects what the calls returned
CallGetCategoryId ==
  /\ pc = "resolve"
  /\ Len(categoryId) < MaxCalls
  /\ categoryId' = Append(categoryId, getCategoryId(category))
  /\ UNCHANGED <<pc, entry, initialized, remote, csvData, opts, todo, batches, i, j,
                 bstate, bresult, outcome, calls, recorded, results, delays, run,
                 targetDate, decisions, category, currentPage, consecutiveEmptyPages,
                 more>>

ResolverNext == CallGetCategoryId

ResolverSpec == ResolverInit /\ [][ResolverNext]_vars

(***************************************************************************)
(* Reconciliation against catalogs whose products lack optional fields.    *)
(***************************************************************************)
\* products as the remote service may list them: the product RowFull is
\* written as; the same without variants; with a variant that has neither
\* price nor inventory; one without status; one without title
LooseProducts ==
  { [title |-> <<"R">>, status |-> "active",
     variants |-> <<Variant(<<"A">>, <<"5", ".", "0", "0">>, 2)>>],
    [title |-> <<"R">>, status |-> "active"],
    [title |-> <<"R">>, status |-> "active", variants |-> <<[sku |-> <<"A">>]>>],
    [title |-> <<"S">>, variants |-> <<Variant(<<"a">>, <<"7", ".", "0", "0">>, 0)>>],
    [status |-> "active",
     variants |-> <<Variant(<<"A">>, <<"5", ".", "0", "0">>, 2)>>] }

LooseCatalogs ==
  UNION {{[n \in 1..len |-> [id |-> n] @@ c[n]] : c \in [1..len -> LooseProducts]} :
           len \in 0..MaxCatalog}

DiffInit ==
  /\ pc = "categorize"
  /\ entry = "csv"
  /\ initialized = TRUE
  /\ remote \in LooseCatalogs
  /\ csvData \in Feeds
  /\ opts \in {[NoOpts EXCEPT !.enableUpdates = upd] : upd \in BOOLEAN}
  /\ todo = <<>>
  /\ batches = <<>>
  /\ i = 0
  /\ j = 0
  /\ bstate = <<>>
  /\ bresult = <<>>
  /\ outcome = <<>>
  /\ calls = <<>>
  /\ recorded = <<>>
  /\ results = NoResults
  /\ delays = 0
  /\ run = 1
  /\ targetDate = <<>>
  /\ decisions = <<>>
  /\ category = <<>>
  /\ categoryId = <<>>
  /\ currentPage = 0
  /\ consecutiveEmptyPages = 0
  /\ filtered = <<>>
  /\ evaluation = <<>>
  /\ analysis = <<>>
  /\ fetched = <<>>
  /\ allProducts = <<>>

\* line 578 reads product.title of every product
IndexBuilt == \A n \in 1..Len(remote) : "title" \in DOMAIN remote[n]

\* lines 576-607: the index is built and the records are categorized
IndexAndCategorize ==
  /\ IndexBuilt
  /\ Categorize

\* line 578: product.title.toLowerCase() on a product without title throws
\* and processProductsFromCSV rejects
IndexBuildThrows ==
  /\ pc = "categorize"
  /\ ~IndexBuilt
  /\ pc' = "failed"
  /\ UNCHANGED <<entry, initialized, remote, csvData, opts, todo, batches, i, j,
                 bstate, bresult, outcome, calls, recorded, results, delays, run, rest>>

DiffNext == IndexAndCategorize \/ IndexBuildThrows

DiffSpec == DiffInit /\ [][DiffNext]_vars

(***************************************************************************)
(* ShopifyClient.getAllProducts, request by request.                       *)
(***************************************************************************)
\* the products of a page (limit=250 in the URL of line 379)
PageLimit == 1

\* the products of page k of the catalog
CatalogPage(k) ==
  SubSeq(remote, (k - 1) * PageLimit + 1,
         IF k * PageLimit < Len(remote) THEN k * PageLimit ELSE Len(remote))

\* the Link header of page k names a next page
HasNext(k) == k * PageLimit < Len(remote)

\* the ways a request fails: an answer with an error status, or no answer
Failures == {"429", "500", "network"}

\* a caller is about to call getAllProducts
CatalogInit ==
  /\ pc = "getAllProducts"
  /\ entry = "catalog"
  /\ initialized \in BOOLEAN
  /\ remote \in DatedCatalogs
  /\ currentPage = 1
  /\ fetched = <<>>
  /\ allProducts = <<>>
  /\ filtered = <<>>
  /\ evaluation = <<>>
  /\ analysis = <<>>
  /\ csvData = <<>>
  /\ opts = NoOpts
  /\ todo = <<>>
  /\ batches = <<>>
  /\ i = 0
  /\ j = 0
  /\ bstate = <<>>
  /\ bresult = <<>>
  /\ outcome = <<>>
  /\ calls = <<>>
  /\ recorded = <<>>
  /\ results = NoResults
  /\ delays = 0
  /\ run = 1
  /\ targetDate = <<>>
  /\ decisions = <<>>
  /\ category = <<>>
  /\ categoryId = <<>>
  /\ consecutiveEmptyPages = 0

CatalogFrame ==
  UNCHANGED <<entry, remote, csvData, opts, todo, batches, i, j, bstate, bresult,
              outcome, calls, recorded, results, delays, run, targetDate, decisions,
              category, categoryId, consecutiveEmptyPages, filtered, evaluation,
              analysis>>

\* lines 373-379: initialize() if it has not run, then the first URL
GetAllBegin ==
  /\ pc = "getAllProducts"
  /\ initialized' = TRUE
  /\ pc' = "catalogFetch"
  /\ UNCHANGED <<currentPage, fetched, allProducts>>
  /\ CatalogFrame

\* line 374: initialize() rejects, outside the try block
GetAllInitializeFails ==
  /\ pc = "getAllProducts"
  /\ ~ initialized
  /\ pc' = "failed"
  /\ UNCHANGED <<initialized, currentPage, fetched, allProducts>>
  /\ CatalogFrame

\* line 384: the page at nextPageUrl is requested
GetAllRequest ==
  /\ pc = "catalogFetch"
  /\ fetched' = Append(fetched, [page |-> currentPage, answer |-> "pending"])
  /\ pc' = "catalogAwait"
  /\ UNCHANGED <<initialized, currentPage, allProducts>>
  /\ CatalogFrame

\* lines 385-396 and 399-400: the page is answered; its products are added,
\* and the list is returned when the Link header names no next page
GetAllAnswered ==
  /\ pc = "catalogAwait"
  /\ fetched' = [fetched EXCEPT ![Len(fetched)].answer = "ok"]
  /\ allProducts' = allProducts \o CatalogPage(currentPage)
  /\ IF HasNext(currentPage)
       THEN currentPage' = currentPage + 1 /\ pc' = "catalogDelay"
       ELSE currentPage' = 0 /\ pc' = "done"
  /\ UNCHANGED initialized
  /\ CatalogFrame

\* the timer of line 395 fires
GetAllDelayElapsed ==
  /\ pc = "catalogDelay"
  /\ pc' = "catalogFetch"
  /\ UNCHANGED <<initialized, currentPage, fetched, allProducts>>
  /\ CatalogFrame

\* a client that raises every failure of a request
GetAllFailsRaised(failure) ==
  /\ pc = "catalogAwait"
  /\ fetched' = [fetched EXCEPT ![Len(fetched)].answer = failure]
  /\ pc' = "failed" /\ allProducts' = allProducts
  /\ UNCHANGED <<initialized, currentPage>>
  /\ CatalogFrame

\* lines 402-409: the request fails; after a 429 an empty list is returned,
\* any other failure is rethrown
GetAllFails(failure) ==
  /\ pc = "catalogAwait"
  /\ fetched' = [fetched EXCEPT ![Len(fetched)].answer = failure]
  /\ IF failure = "429"
       THEN pc' = "done" /\ allProducts' = <<>>
       ELSE pc' = "failed" /\ allProducts' = allProducts
  /\ UNCHANGED <<initialized, currentPage>>
  /\ CatalogFrame

CatalogNext ==
  \/ GetAllBegin
  \/ GetAllInitializeFails
  \/ GetAllRequest
  \/ GetAllAnswered
  \/ GetAllDelayElapsed
  \/ \E failure \in Failures : GetAllFails(failure)

CatalogSpec == CatalogInit /\ [][CatalogNext]_vars

(***************************************************************************)
(* The eligibility filters: ProductProcessor.filterProducts (index.js),    *)
(* ProductAnalyzer.filterProducts and ProductAnalyzer.evaluateProduct.     *)
(***************************************************************************)
\* ProductProcessor.filterCriteria
processorCriteria ==
  [msrpMin |-> 100, msrpMax |-> 1000,
   productLines |->
     <<<<"B", "r", "e", "a", "s", "t", " ", "C", "a", "n", "c", "e", "r", " ", "A", "w", "a", "r", "e", "n", "e", "s", "s">>,
     <<"C", "o", "l", "o", "r", "f", "u", "l", " ", "C", "o", "l", "l", "e", "c", "t", "i", "o", "n", "s">>,
     <<"D", "a", "i", "n", "t", "y", " ", "D", "e", "s", "i", "g", "n", "s">>,
     <<"D", "i", "a", "m", "o", "n", "d", " ", "F", "a", "s", "c", "i", "n", "a", "t", "i", "o", "n">>,
     <<"E", "a", "r", "r", "i", "n", "g", " ", "J", "a", "c", "k", "e", "t", "s">>,
     <<"F", "a", "n", "c", "y", " ", "D", "i", "a", "m", "o", "n", "d", " ", "H", "o", "o", "p", "s">>,
     <<"F", "i", "n", "e", " ", "D", "i", "a", "m", "o", "n", "d", " ", "J", "e", "w", "e", "l", "r", "y">>,
     <<"I", "B", "G", "o", "o", "d", "m", "a", "n">>,
     <<"I", "n", "f", "i", "n", "i", "t", "y">>,
     <<"I", "n", "v", "e", "r", "n", "e", "s", "s">>,
     <<"I", "t", "a", "l", "i", "a", "n", " ", "G", "o", "l", "d">>,
     <<"L", "a", "b", " ", "G", "r", "o", "w", "n", " ", "D", "i", "a", "m", "o", "n", "d", " ", "J", "e", "w", "e", "l", "r", "y">>,
     <<"L", "o", "c", "k", "e", "t", "s">>,
     <<"M", "a", "d", "i", " ", "K">>,
     <<"P", "e", "a", "r", "l", "s">>,
     <<"P", "r", "e", "m", "i", "e", "r">>,
     <<"S", "e", "a", " ", "I", "n", "s", "p", "i", "r", "e", "d", " ", "S", "i", "l", "v", "e", "r", " ", "J", "e", "w", "e", "l", "r", "y">>,
     <<"S", "i", "d", "e", "w", "a", "y", "s", " ", "C", "r", "o", "s", "s", "e", "s">>,
     <<"S", "i", "m", "p", "l", "y", " ", "S", "t", "a", "r", "z">>,
     <<"S", "o", "u", "t", "h", " ", "S", "e", "a", " ", "a", "n", "d", " ", "T", "a", "h", "i", "t", "i", "a", "n", " ", "P", "e", "a", "r", "l", "s">>,
     <<"S", "t", "a", "c", "k", "a", "b", "l", "e", " ", "E", "x", "p", "r", "e", "s", "s", "i", "o", "n", "s">>,
     <<"T", "w", "o", " ", "S", "t", "o", "n", "e", " ", "C", "o", "l", "l", "e", "c", "t", "i", "o", "n">>,
     <<"V", "i", "b", "r", "a", "n", "t">>,
     <<"W", "e", "d", "d", "i", "n", "g", " ", "B", "a", "n", "d", "s", " ", "U", "S", "A">>>>]

\* ProductAnalyzer.filterCriteria of the analysis script
analyzerCriteria ==
  [msrpMin |-> 1000, msrpMax |-> 2000,
   productLines |->
     <<<<"B", "r", "i", "d", "a", "l">>,
     <<"F", "a", "n", "c", "y", " ", "D", "i", "a", "m", "o", "n", "d", " ", "H", "o", "o", "p", "s">>,
     <<"F", "i", "n", "e", " ", "D", "i", "a", "m", "o", "n", "d", " ", "J", "e", "w", "e", "l", "r", "y">>,
     <<"W", "e", "d", "d", "i", "n", "g", " ", "B", "a", "n", "d", "s", " ", "U", "S", "A">>,
     <<"e", "a", "r", "r", "i", "n", "g", "s">>,
     <<"b", "r", "a", "c", "e", "l", "e", "t", "s">>,
     <<"c", "h", "a", "i", "n", "s">>,
     <<"p", "e", "n", "d", "a", "n", "t", "s">>,
     <<"e", "n", "g", "a", "g", "e", "m", "e", "n", "t", " ", "r", "i", "n", "g", "s">>,
     <<"w", "e", "d", "d", "i", "n", "g", " ", "b", "a", "n", "d", "s">>>>]

\* the default criteria of analyzeProductsFromCSV
defaultCriteria ==
  [msrpMin |-> 1000, msrpMax |-> 2000,
   productLines |->
     <<<<"B", "R", "A", "C", "E", "L", "E", "T">>,
     <<"E", "A", "R", "R", "I", "N", "G", "S">>,
     <<"N", "E", "C", "K", "L", "A", "C", "E">>,
     <<"P", "E", "N", "D", "A", "N", "T">>,
     <<"R", "I", "N", "G">>,
     <<"C", "H", "A", "R", "M">>,
     <<"A", "N", "K", "L", "E", "T">>,
     <<"C", "H", "A", "I", "N">>,
     <<"S", "E", "T">>>>]

\* criteria given as options: two lines only
ringCriteria ==
  [msrpMin |-> 1000, msrpMax |-> 2000,
   productLines |-> <<<<"R", "I", "N", "G">>, <<"N", "E", "C", "K", "L", "A", "C", "E">>>>]

FilterRecord(item, desc, msrp, contract, line, categories, itemType, status) ==
  [Item |-> item, Description |-> desc, MSRP |-> msrp, ContractPrice |-> contract,
   ProductLine |-> line, Categories |-> categories, Item_Type |-> itemType,
   Status |-> status]

\* the sample records of testFiltering
sampleData ==
  <<FilterRecord(<<"T", "E", "S", "T", "-", "0", "0", "1">>, <<"D", "i", "a", "m", "o", "n", "d", " ", "E", "n", "g", "a", "g", "e", "m", "e", "n", "t", " ", "R", "i", "n", "g">>,
               <<"1", "5", "0", "0", ".", "0", "0">>, <<>>, <<"e", "n", "g", "a", "g", "e", "m", "e", "n", "t", " ", "r", "i", "n", "g", "s">>,
               <<>>, <<>>, <<"A", "c", "t", "i", "v", "e">>),
    FilterRecord(<<"T", "E", "S", "T", "-", "0", "0", "2">>, <<"G", "o", "l", "d", " ", "C", "h", "a", "i", "n", " ", "N", "e", "c", "k", "l", "a", "c", "e">>,
               <<"8", "0", "0", ".", "0", "0">>, <<>>, <<"c", "h", "a", "i", "n", "s">>,
               <<>>, <<>>, <<"A", "c", "t", "i", "v", "e">>),
    FilterRecord(<<"T", "E", "S", "T", "-", "0", "0", "3">>, <<"B", "r", "i", "d", "a", "l", " ", "S", "e", "t", " ", "R", "i", "n", "g">>,
               <<"1", "8", "0", "0", ".", "0", "0">>, <<>>, <<"B", "r", "i", "d", "a", "l">>,
               <<>>, <<>>, <<"A", "c", "t", "i", "v", "e">>),
    FilterRecord(<<"T", "E", "S", "T", "-", "0", "0", "4">>, <<"R", "a", "n", "d", "o", "m", " ", "P", "r", "o", "d", "u", "c", "t">>,
               <<"1", "2", "0", "0", ".", "0", "0">>, <<>>, <<"O", "t", "h", "e", "r", " ", "C", "a", "t", "e", "g", "o", "r", "y">>,
               <<>>, <<>>, <<"A", "c", "t", "i", "v", "e">>)>>

FilterPrices ==
  { <<>>, <<"a", "b", "c">>, <<"1", "0", "0">>, <<"5", "0", "0">>, <<"$", "5", "0", "0">>,
    <<"8", "0", "0">>, <<"1", "0", "0", "0">>,
    <<"1", ",", "0", "0", "0", ".", "0", "0">>,
    <<"1", ",", "5", "0", "0", ".", "0", "0">>, <<"2", "0", "0", "0">>, <<"2", "5", "0", "0">> }

FilterLines ==
  { <<>>, <<"R", "i", "n", "g">>, <<" ", "r", "i", "n", "g", "s", " ">>, <<"R", "i", "n">>, <<"P", "e", "a", "r", "l", "s">>,
    <<"p", "e", "a", "r", "l">>, <<"F", "i", "n", "e", " ", "P", "e", "a", "r", "l", "s">>, <<"B", "r", "a", "c", "e", "l", "e", "t">> }

FilterDescriptions == { <<"D">>, <<"E", "n", "g", "r", "a", "v", "e", "a", "b", "l", "e", " ", "D">> }

FilterCategories == { <<>>, <<"F", "i", "n", "d", "i", "n", "g", "s">> }

\* records whose MSRP and ContractPrice hold the same price
FilterRecords ==
  {FilterRecord(<<"I">>, desc, price, price, line, categories, <<>>, <<"A", "c", "t", "i", "v", "e">>) :
     desc \in FilterDescriptions, price \in FilterPrices, line \in FilterLines,
     categories \in FilterCategories}

\* lists of two, for the order of what is kept
PairRecords ==
  {FilterRecord(<<"I">>, <<"D">>, price, price, <<"P", "e", "a", "r", "l", "s">>, <<>>, <<>>, <<"A", "c", "t", "i", "v", "e">>) :
     price \in { <<"5", "0", "0">>, <<"8", "0", "0">>, <<"2", "5", "0", "0">> }}

\* records with a price in range and a configured line, one field apart
ExclusionRecords ==
  {FilterRecord(<<"I">>, desc, <<"5", "0", "0">>, <<"5", "0", "0">>, <<"P", "e", "a", "r", "l", "s">>,
                categories, itemType, status) :
     desc \in {<<"D">>, <<"M", "o", "u", "n", "t", "i", "n", "g", " ", "D">>},
     categories \in {<<>>, <<"P", "e", "r", "s", "o", "n", "a", "l", "i", "z", "e", "d">>,
                     <<"E", "n", "g", "r", "a", "v", "e", "a", "b", "l", "e">>},
     itemType \in {<<>>, <<"F", "i", "n", "d", "i", "n", "g", "s">>,
                   <<"P", "e", "r", "s", "o", "n", "a", "l", "i", "z", "e", "d">>},
     status \in {<<"A", "c", "t", "i", "v", "e">>,
                 <<" ", "D", "i", "s", "c", "o", "n", "t", "i", "n", "u", "e", "d">>}}

FilterFeeds ==
  {<<r>> : r \in FilterRecords \cup ExclusionRecords} \cup {<<r, q>> : r, q \in PairRecords}
    \cup {sampleData}

\* the price test of the two filterProducts: parseFloat of the field as it is
priceWithin(priceStr, criteria) ==
  LET msrp == parseFloat(priceStr)
  IN ~(msrp = NaN \/ msrp < 100 * criteria.msrpMin \/ msrp > 100 * criteria.msrpMax)

\* the price test on the field stripped of everything but digits, '.', '-'
priceWithinStripped(priceStr, criteria) ==
  priceWithin(SelectSeq(priceStr, IsPriceChar), criteria)

\* lines 75-85: the line equals a configured line or contains one
hasMatchingProductLine(productLine, criteria) ==
  \E n \in 1..Len(criteria.productLines) :
    \/ productLine = toLowerCase(criteria.productLines[n])
    \/ includes(productLine, toLowerCase(criteria.productLines[n]))

\* lines 63-67
notDiscontinued(product) ==
  trim(toLowerCase(product.Status)) # <<"d", "i", "s", "c", "o", "n", "t", "i", "n", "u", "e", "d">>

\* lines 87-117: the exclusion rules
notExcluded(product) ==
  LET categories == toLowerCase(product.Categories)
      itemType == toLowerCase(product.Item_Type)
      title == toLowerCase(product.Description)
      productLine == trim(toLowerCase(product.ProductLine))
  IN /\ ~includes(categories, <<"f", "i", "n", "d", "i", "n", "g">>)
     /\ ~includes(categories, <<"m", "o", "u", "n", "t", "i", "n", "g">>)
     /\ ~includes(itemType, <<"f", "i", "n", "d", "i", "n", "g">>)
     /\ ~includes(itemType, <<"m", "o", "u", "n", "t", "i", "n", "g">>)
     /\ ~includes(title, <<"e", "n", "g", "r", "a", "v", "e", "a", "b", "l", "e">>)
     /\ ~includes(productLine, <<"p", "e", "r", "s", "o", "n", "a", "l", "i", "z", "e", "d">>)
     /\ ~includes(categories, <<"p", "e", "r", "s", "o", "n", "a", "l", "i", "z", "e", "d">>)

\* lines 119-122
hasRequiredFields(product) == product.Item # <<>> /\ product.Description # <<>>

\* the predicate of ProductProcessor.filterProducts
processorKeeps(product) ==
  /\ notDiscontinued(product)
  /\ priceWithin(product.ContractPrice, processorCriteria)
  /\ hasMatchingProductLine(trim(toLowerCase(product.ProductLine)), processorCriteria)
  /\ notExcluded(product)
  /\ hasRequiredFields(product)

\* ProductProcessor.filterProducts
filterProducts(products) == SelectSeq(products, processorKeeps)

\* the predicate of ProductAnalyzer.filterProducts
analyzerKeeps(product) ==
  /\ priceWithin(product.ContractPrice, analyzerCriteria)
  /\ hasMatchingProductLine(trim(toLowerCase(product.ProductLine)), analyzerCriteria)
  /\ hasRequiredFields(product)

\* ProductAnalyzer.filterProducts
analyzerFilterProducts(products) == SelectSeq(products, analyzerKeeps)

\* ProductAnalyzer.parsePrice, in hundredths; NaN stands for null
analyzerParsePrice(priceStr) ==
  IF priceStr = <<>> THEN NaN ELSE parseFloat(SelectSeq(priceStr, IsPriceChar))

\* Array.prototype.includes
arrayIncludes(array, x) == \E n \in 1..Len(array) : array[n] = x

\* lines 144-155: the reasons of the price check
priceReasons(msrpValue, criteria) ==
  IF msrpValue = NaN THEN <<"No MSRP data">>
  ELSE IF msrpValue < 100 * criteria.msrpMin THEN <<"MSRP below minimum">>
  ELSE IF msrpValue > 100 * criteria.msrpMax THEN <<"MSRP above maximum">>
  ELSE <<>>

\* lines 157-162: the reasons of the line check
lineReasons(productLine, criteria) ==
  IF productLine = <<>> \/ ~arrayIncludes(criteria.productLines, productLine)
    THEN <<"Product line not in criteria">>
    ELSE <<>>

\* ProductAnalyzer.evaluateProduct
evaluateProduct(item, criteria) ==
  LET msrpValue == analyzerParsePrice(item.MSRP)
      productLine == trim(toUpperCase(item.ProductLine))
      reasons == priceReasons(msrpValue, criteria) \o lineReasons(productLine, criteria)
  IN [matches |-> reasons = <<>>, reasons |-> reasons, msrp |-> msrpValue,
      productLine |-> productLine]

\* evaluateProduct throws: line 158 calls toUpperCase on a ProductLine that is
\* truthy and not a string
evaluateThrows(item) ==
  /\ "typeofProductLine" \in DOMAIN item
  /\ item.typeofProductLine # "string"
  /\ item.ProductLine # <<>>

\* lines 71-90: the analysis before the first record
NoAnalysis(csvData_) ==
  [total |-> Len(csvData_), matching |-> 0, rejected |-> 0,
   rejectionReasons |->
     [reason \in {"No MSRP data", "MSRP below minimum", "MSRP above maximum",
                  "Product line not in criteria", "Multiple criteria failed"} |-> 0],
   errors |-> <<>>]

\* a callback that files a record under its first reason, however many it has
analyseItemByFirstReason(analysis_, item, index, criteria) ==
  IF evaluateThrows(item)
    THEN [analysis_ EXCEPT
            !.errors = Append(@, [index |-> index - 1, item |-> OrElse(item.Item, Unknown)])]
  ELSE LET result == evaluateProduct(item, criteria)
       IN IF result.matches
            THEN [analysis_ EXCEPT !.matching = @ + 1]
            ELSE [analysis_ EXCEPT
                    !.rejected = @ + 1,
                    !.rejectionReasons[result.reasons[1]] = @ + 1]

\* lines 93-124: the callback of forEach on the record at index (1-based here)
analyseItem(analysis_, item, index, criteria) ==
  IF evaluateThrows(item)
    THEN [analysis_ EXCEPT
            !.errors = Append(@, [index |-> index - 1, item |-> OrElse(item.Item, Unknown)])]
  ELSE LET result == evaluateProduct(item, criteria)
       IN IF result.matches
            THEN [analysis_ EXCEPT !.matching = @ + 1]
          ELSE IF Len(result.reasons) = 1
            THEN [analysis_ EXCEPT
                    !.rejected = @ + 1,
                    !.rejectionReasons[result.reasons[1]] = @ + 1]
          ELSE IF Len(result.reasons) > 1
            THEN [analysis_ EXCEPT
                    !.rejected = @ + 1,
                    !.rejectionReasons["Multiple criteria failed"] = @ + 1]
          ELSE [analysis_ EXCEPT !.rejected = @ + 1]

RECURSIVE analyseFrom(_, _, _, _)
analyseFrom(analysis_, csvData_, index, criteria) ==
  IF index > Len(csvData_) THEN analysis_
  ELSE analyseFrom(analyseItem(analysis_, csvData_[index], index, criteria),
                   csvData_, index + 1, criteria)

\* ProductAnalyzer.performAnalysis
performAnalysis(csvData_, criteria) ==
  analyseFrom(NoAnalysis(csvData_), csvData_, 1, criteria)

\* a record whose ProductLine is the number 14, and no ContractPrice
NumericLineRecord ==
  FilterRecord(<<"J">>, <<"D">>, <<"1", "5", "0", "0">>, <<>>, <<"1", "4">>, <<>>, <<>>,
               <<"A", "c", "t", "i", "v", "e">>)
    @@ [typeofProductLine |-> "number"]

\* feeds for the analysis: one or two records, the numeric line among them
AnalysisFeeds ==
  {<<r, q>> : r \in PairRecords \cup {NumericLineRecord},
             q \in {NumericLineRecord, sampleData[1], sampleData[4]}}
    \cup {<<sampleData[4], r, NumericLineRecord>> : r \in PairRecords}

\* a list of records is about to be filtered and analysed
FilterInit ==
  /\ pc = "filter"
  /\ entry = "filter"
  /\ csvData \in FilterFeeds \cup AnalysisFeeds
  /\ opts \in {defaultCriteria, ringCriteria}
  /\ filtered = <<>>
  /\ evaluation = <<>>
  /\ analysis = <<>>
  /\ fetched = <<>>
  /\ allProducts = <<>>
  /\ initialized = FALSE
  /\ remote = <<>>
  /\ todo = <<>>
  /\ batches = <<>>
  /\ i = 0
  /\ j = 0
  /\ bstate = <<>>
  /\ bresult = <<>>
  /\ outcome = <<>>
  /\ calls = <<>>
  /\ recorded = <<>>
  /\ results = NoResults
  /\ delays = 0
  /\ run = 1
  /\ targetDate = <<>>
  /\ decisions = <<>>
  /\ category = <<>>
  /\ categoryId = <<>>
  /\ currentPage = 0
  /\ consecutiveEmptyPages = 0

FilterFrame ==
  UNCHANGED <<pc, entry, initialized, remote, csvData, opts, todo, batches, i, j,
              bstate, bresult, outcome, calls, recorded, results, delays, run,
              targetDate, decisions, category, categoryId, currentPage,
              consecutiveEmptyPages>>

\* processor.filterProducts(csvData)
CallFilterProducts ==
  /\ pc = "filter"
  /\ "ProductProcessor" \notin DOMAIN filtered
  /\ filtered' = filtered @@ ("ProductProcessor" :> filterProducts(csvData))
  /\ UNCHANGED <<evaluation, analysis, fetched, allProducts>>
  /\ FilterFrame

\* the filterProducts of the analysis script on the same records
CallAnalyzerFilterProducts ==
  /\ pc = "filter"
  /\ "ProductAnalyzer" \notin DOMAIN filtered
  /\ filtered' = filtered @@ ("ProductAnalyzer" :> analyzerFilterProducts(csvData))
  /\ UNCHANGED <<evaluation, analysis, fetched, allProducts>>
  /\ FilterFrame

\* evaluateProduct on every record, when it returns for each of them
CallEvaluateProduct ==
  /\ pc = "filter"
  /\ evaluation = <<>>
  /\ \A k \in 1..Len(csvData) : ~ evaluateThrows(csvData[k])
  /\ evaluation' = [k \in 1..Len(csvData) |-> evaluateProduct(csvData[k], opts)]
  /\ UNCHANGED <<filtered, analysis, fetched, allProducts>>
  /\ FilterFrame

\* analyzer.performAnalysis(csvData, criteria)
CallPerformAnalysis ==
  /\ pc = "filter"
  /\ analysis = <<>>
  /\ analysis' = performAnalysis(csvData, opts)
  /\ UNCHANGED <<filtered, evaluation, fetched, allProducts>>
  /\ FilterFrame

FilterNext ==
  \/ CallFilterProducts
  \/ CallAnalyzerFilterProducts
  \/ CallEvaluateProduct
  \/ CallPerformAnalysis

FilterSpec == FilterInit /\ [][FilterNext]_vars

(***************************************************************************)
(* The importers together with the other entry points of the repository.   *)
(***************************************************************************)
ProgramInit == Init \/ DeleterInit \/ ApiInit

ProgramNext ==
  \/ Next
  \/ CallCreateProductsFromCSV
  \/ DeleterNext
  \/ ApiNext

ProgramSpec == ProgramInit /\ [][ProgramNext]_vars

(***************************************************************************)
(* Properties.                                                             *)
(***************************************************************************)
CeilDiv(n, d) == (n + d - 1) \div d

\* the bucket the result of a resolved call belongs to
OwnBucket(op) ==
  IF outcome[op.idx] = "ok"
    THEN IF ActionOf(op) = "update" THEN "updated" ELSE "created"
    ELSE "error"

\* every item of the batch was called once, has resolved, and was counted
\* in the bucket of its own result
ItemsAccounted(batch) ==
  \A k \in 1..Len(batch) :
    /\ calls[batch[k].idx] = 1
    /\ outcome[batch[k].idx] \in {"ok", "fail"}
    /\ recorded[batch[k].idx] = OwnBucket(batch[k])

CountIn(batch, oc) == Cardinality({x \in IdxOf(batch) : outcome[x] = oc})

\* a batch of processBatchedProducts whose dispatch failed as a whole
DispatchFailed(b) ==
  /\ bstate[b] \in {"resolved", "aggregated"}
  /\ \A x \in IdxOf(batches[b]) : calls[x] = 0

\* a batch of processBatchedProducts whose item promises have all settled
DirectSettled(b) ==
  /\ bstate[b] \in {"resolved", "aggregated"}
  /\ ~DispatchFailed(b)

\* the batches processBatchParallelWithUpdates has returned from
ParallelSettled ==
  IF pc = "csvAwaitBatch" THEN 1..(Len(batches) - 1) ELSE 1..Len(batches)

\* C1: failure isolation inside a batch.  In every batch that
\* processBatchDirect or processBatchParallelWithUpdates has finished, every
\* item's call was issued and has resolved, and every item is recorded with
\* its own outcome: the failed items are counted once each in errors (with
\* one error record each), the others as created or updated, whatever the
\* order in which the calls completed.
C1_FailureIsolation ==
  /\ entry = "batched" =>
       \A b \in DOMAIN bstate :
         DirectSettled(b) =>
           /\ ItemsAccounted(batches[b])
           /\ bresult[b].errors = CountIn(batches[b], "fail")
           /\ bresult[b].created = CountIn(batches[b], "ok")
           /\ Len(bresult[b].errorDetails) = CountIn(batches[b], "fail")
  /\ (entry = "csv" /\ opts.parallelBatch /\ ~opts.dryRun) =>
       /\ \A b \in ParallelSettled : ItemsAccounted(batches[b])
       /\ results.errors = Cardinality({x \in DOMAIN recorded : recorded[x] = "error"})
       /\ results.created = Cardinality({x \in DOMAIN recorded : recorded[x] = "created"})
       /\ results.updated = Cardinality({x \in DOMAIN recorded : recorded[x] = "updated"})
       /\ Len(results.errorDetails) = results.errors

\* a finished batch of two items of which one failed and one succeeded
C1_Witness ==
  /\ entry = "batched"
  /\ \E b \in DOMAIN bstate :
       /\ DirectSettled(b)
       /\ Len(batches[b]) >= 2
       /\ CountIn(batches[b], "fail") >= 1
       /\ CountIn(batches[b], "ok") >= 1

\* C2: count conservation.  When processProductsFromCSV returns,
\* created + updated + skipped + errors equals total.
C2_CountConservation ==
  (entry = "csv" /\ pc = "done") =>
    results.created + results.updated + results.skipped + results.errors = results.total

\* the batch of the planned operation of record x was dispatched
Dispatched(x) ==
  entry = "batched" =>
    \E b \in DOMAIN bstate : x \in IdxOf(batches[b]) /\ ~DispatchFailed(b)

\* C3: exactly-once attempt.  No record ever has more than one remote call
\* issued for it in a run, a record without a planned operation has none,
\* and when the run returns every planned operation has had its call issued
\* exactly once, whatever failed before it (a dry run issues no call, and
\* neither does a batch whose dispatch failed as a whole).
C3_ExactlyOnce ==
  /\ \A x \in DOMAIN calls : calls[x] <= 1
  /\ \A x \in DOMAIN calls : x \notin IdxOf(todo) => calls[x] = 0
  /\ (pc = "done" /\ ~opts.dryRun) =>
       \A x \in IdxOf(todo) : Dispatched(x) => calls[x] = 1

\* the run has returned, the first operation failed, and the operation of
\* the last batch was still called
C3_Witness ==
  /\ pc = "done"
  /\ Len(batches) >= 2
  /\ outcome[batches[1][1].idx] = "fail"
  /\ calls[batches[Len(batches)][1].idx] = 1

InFlightBatches == {b \in DOMAIN bstate : bstate[b] \in {"initializing", "running"}}

\* C4: bounded concurrency.  At every moment of processBatchedProducts the
\* number of batches started and not yet resolved is at most
\* maxConcurrentBatches.
C4_BoundedConcurrency ==
  entry = "batched" => Cardinality(InFlightBatches) <= opts.maxConcurrentBatches

\* a full window is in flight while more batches are queued
C4_Witness ==
  /\ entry = "batched"
  /\ opts.maxConcurrentBatches >= 2
  /\ Cardinality(InFlightBatches) = opts.maxConcurrentBatches
  /\ \E b \in DOMAIN bstate : bstate[b] = "queued"

WindowIndex(b) == (b - 1) \div opts.maxConcurrentBatches

\* C5: window sequencing.  A batch of a later window is started only when
\* every batch of every earlier window has resolved and been aggregated.
C5_WindowSequencing ==
  entry = "batched" =>
    \A b, c \in DOMAIN bstate :
      (WindowIndex(b) < WindowIndex(c) /\ bstate[c] # "queued")
        => bstate[b] = "aggregated"

\* a batch of the second window is in flight after a first window of two
C5_Witness ==
  /\ entry = "batched"
  /\ opts.maxConcurrentBatches >= 2
  /\ \E c \in DOMAIN bstate : WindowIndex(c) = 1 /\ bstate[c] = "running"

\* the delays the window loop inserts for nb batches
RECURSIVE DelayCount(_, _, _)
DelayCount(start, mcb, nb) ==
  IF start < nb
    THEN (IF MoreWindowsAt(start, mcb, nb) THEN 1 ELSE 0) + DelayCount(start + mcb, mcb, nb)
    ELSE 0

Operations23 == [k \in 1..23 |-> k]

\* C6: pacing.  processBatchedProducts has waited one delay per window it
\* has left behind, so that it returns after
\* max(0, ceil(numBatches / maxConcurrentBatches) - 1) delays, none of them
\* after the final window; 23 operations with batchSize 10 and
\* maxConcurrentBatches 3 give 3 batches, one window and no delay.
C6_Pacing ==
  /\ entry = "batched" =>
       /\ delays = (i \div opts.maxConcurrentBatches) + (IF pc = "delay" THEN 1 ELSE 0)
       /\ pc = "done" =>
            /\ delays = IF Len(batches) = 0 THEN 0
                        ELSE CeilDiv(Len(batches), opts.maxConcurrentBatches) - 1
            /\ delays = DelayCount(0, opts.maxConcurrentBatches, Len(batches))
  /\ Len(SplitFrom(Operations23, 0, DefaultBatchSize)) = 3
  /\ DelayCount(0, DefaultMaxConcurrentBatches,
                Len(SplitFrom(Operations23, 0, DefaultBatchSize))) = 0

\* a run of several windows has returned
C6_Witness ==
  /\ entry = "batched"
  /\ pc = "done"
  /\ delays >= 1
  /\ Len(batches) = 2 * opts.maxConcurrentBatches

\* ceil(N/B) batches, all but the last of B items, the last of 1..B items,
\* and their concatenation is the input list
Partitioned(bt, input, B) ==
  /\ Len(bt) = CeilDiv(Len(input), B)
  /\ \A b \in 1..Len(bt) :
       IF b < Len(bt) THEN Len(bt[b]) = B ELSE Len(bt[b]) \in 1..B
  /\ Concat(bt) = input

\* C7: partitioning.  The batches of processBatchedProducts, and the batches
\* processProductsFromCSV has sliced when it returns, are ceil(N/B) batches
\* of B items (the last possibly shorter) whose concatenation is the list
\* of operations; while processProductsFromCSV runs, the batches sliced so
\* far are full and are a prefix of that list.
C7_Partitioning ==
  /\ entry = "batched" => Partitioned(batches, todo, opts.batchSize)
  /\ (entry = "csv" /\ pc = "done") => Partitioned(batches, todo, opts.batchSize)
  /\ entry = "csv" =>
       /\ Concat(batches) = SubSeq(todo, 1, Len(Concat(batches)))
       /\ \A b \in 1..(Len(batches) - 1) : Len(batches[b]) = opts.batchSize

\* three operations in batches of two: the last batch is shorter
C7_Witness ==
  /\ entry = "batched"
  /\ pc = "done"
  /\ Len(todo) = 3
  /\ opts.batchSize = 2
  /\ Len(batches[2]) = 1

RECURSIVE SumErrors(_)
SumErrors(b) == IF b = 0 THEN 0 ELSE bresult[b].errors + SumErrors(b - 1)

C10_IdempotentRerun ==
  run = 2 => \A x \in DOMAIN calls : calls[x] = 0

\* C11: the main run path reconciles before writing.  In a run of
\* processBatchedProducts (the batch step of ProductProcessor.run) a create
\* call is issued for a record only if no product of the remote catalog
\* matches it by identifier or by display name.
C11_ReconcileBeforeCreate ==
  [][\A x \in DOMAIN calls :
       (entry = "batched" /\ x \in DOMAIN calls' /\ calls'[x] > calls[x])
         => FindExisting(csvData[x], remote) = 0]_vars

\* the products of the catalog one of whose variants has the normalized
\* identifier of the record
SameIdentifier(csvItem, catalog) ==
  {n \in 1..Len(catalog) :
     /\ "variants" \in DOMAIN catalog[n]
     /\ \E v \in 1..Len(catalog[n].variants) :
          /\ catalog[n].variants[v].sku # <<>>
          /\ toLowerCase(catalog[n].variants[v].sku) = toLowerCase(csvItem.Item)}

\* the products of the catalog with the normalized display name of the record
SameDisplayName(csvItem, catalog) ==
  {n \in 1..Len(catalog) :
     toLowerCase(catalog[n].title) =
       toLowerCase(IF csvItem.Description # <<>> THEN csvItem.Description
                   ELSE csvItem.Item)}

HasIdentifierMatch(csvItem, catalog) ==
  csvItem.Item # <<>> /\ SameIdentifier(csvItem, catalog) # {}

HasDisplayNameMatch(csvItem, catalog) ==
  (csvItem.Description # <<>> \/ csvItem.Item # <<>>)
    /\ SameDisplayName(csvItem, catalog) # {}

\* C12: the identifier match is authoritative.  A record whose normalized
\* identifier is the key of some variant of some remote product is paired
\* with a product that has such a variant, whatever product has its display
\* name; a record is paired through its display name only when the
\* identifier lookup misses.
C12_IdentifierWins ==
  pc = "categorized" =>
    \A k \in 1..Len(csvData) :
      LET d == decisions[k]
      IN /\ HasIdentifierMatch(csvData[k], remote) =>
              /\ d.action # "create"
              /\ d.existingProduct.id \in SameIdentifier(csvData[k], remote)
         /\ (~HasIdentifierMatch(csvData[k], remote) /\ d.action # "create") =>
              d.existingProduct.id \in SameDisplayName(csvData[k], remote)

\* a record was paired through its identifier with one product while another
\* product, without that identifier, has its display name
C12_Witness ==
  /\ pc = "categorized"
  /\ \E k \in 1..Len(csvData) :
       /\ HasIdentifierMatch(csvData[k], remote)
       /\ \E n \in SameDisplayName(csvData[k], remote) :
            n \notin SameIdentifier(csvData[k], remote)
       /\ decisions[k].existingProduct.id \in SameIdentifier(csvData[k], remote)
       /\ decisions[k].existingProduct.id \notin SameDisplayName(csvData[k], remote)

Matched(csvItem, catalog) ==
  HasIdentifierMatch(csvItem, catalog) \/ HasDisplayNameMatch(csvItem, catalog)

\* the records of the feed that are handed to the batch loop, in feed order
HandedOver == {todo[n].idx : n \in 1..Len(todo)}

\* every record has one decision, a create iff nothing matched, and the list
\* handed to the batch loop holds each created or updated record once and no
\* skipped record
OneDecisionEach ==
  /\ Len(decisions) = Len(csvData)
  /\ \A k \in 1..Len(csvData) :
       /\ decisions[k].action \in {"create", "update", "skip"}
       /\ decisions[k].action = "create" <=> ~Matched(csvData[k], remote)
  /\ \A n \in 1..Len(todo) : todo[n].action \in {"create", "update"}
  /\ HandedOver = {k \in 1..Len(csvData) : decisions[k].action # "skip"}
  /\ Len(todo) = Cardinality(HandedOver)

\* C13 as stated: every record gets exactly one decision; unmatched is a
\* Create, matched with no changed field is a Skip, matched with a changed
\* field is an Update; no Skip without a match, and no skipped record is
\* handed to the batch executor.
C13_DecisionRule ==
  pc = "categorized" =>
    /\ OneDecisionEach
    /\ \A k \in 1..Len(csvData) :
         decisions[k].action # "create" =>
           LET changes == doesProductNeedUpdate(csvData[k], decisions[k].existingProduct)
           IN /\ changes = <<>> => decisions[k].action = "skip"
              /\ changes # <<>> => decisions[k].action = "update"

\* C13, amended: the rule for matched records holds when updates are
\* enabled; when they are disabled every matched record is a Skip.
C13_DecisionRuleWhenEnabled ==
  pc = "categorized" =>
    /\ OneDecisionEach
    /\ \A k \in 1..Len(csvData) :
         decisions[k].action # "create" =>
           LET changes == doesProductNeedUpdate(csvData[k], decisions[k].existingProduct)
           IN IF opts.enableUpdates
                THEN /\ changes = <<>> => decisions[k].action = "skip"
                     /\ changes # <<>> =>
                          /\ decisions[k].action = "update"
                          /\ decisions[k].changes = changes
                ELSE decisions[k].action = "skip"

\* with updates enabled, a feed of a record to skip and a record to update
\* was categorised and only the update was handed over
C13_Witness ==
  /\ pc = "categorized"
  /\ opts.enableUpdates
  /\ Len(csvData) = 2
  /\ decisions[1].action = "skip"
  /\ decisions[2].action = "update"
  /\ HandedOver = {2}

\* the run is one in which updates are disabled
UpdatesDisabled == entry = "legacy" \/ (entry = "csv" /\ ~opts.enableUpdates)

\* C14: with enableUpdates=false, and in every run of the legacy entry point
\* createProductsFromCSV whatever options it is given, only creates are
\* handed to the batch loop and no product of the remote catalog is changed:
\* no update call is issued.
C14_NoUpdateWhenDisabled ==
  [][UpdatesDisabled' =>
       /\ \A n \in 1..Len(todo') : todo'[n].action = "create"
       /\ \A x \in DOMAIN calls' : calls'[x] > 0 => ActionOf(OpOf(x))' = "create"
       /\ \A n \in 1..Len(remote) : n <= Len(remote') /\ remote'[n] = remote[n]]_vars

\* a run of the legacy entry point has returned without a call for a record
\* that matches a remote product and differs from it
C14_Witness ==
  /\ entry = "legacy"
  /\ pc = "done"
  /\ \E k \in 1..Len(csvData) :
       /\ FindExisting(csvData[k], remote) # 0
       /\ doesProductNeedUpdate(csvData[k], remote[FindExisting(csvData[k], remote)]) # <<>>
       /\ calls[k] = 0

\* C15: per-item accounting.  When processProductsFromCSV returns, every
\* operation that was handed to batch execution has been counted in exactly
\* one of created, updated, errors, in the parallel and in the sequential
\* mode, with dryRun on or off.
C15_PerItemAccounting ==
  (entry = "csv" /\ pc = "done") =>
    /\ \A n \in 1..Len(todo) :
         recorded[todo[n].idx] \in {"created", "updated", "error"}
    /\ results.created + results.updated + results.errors = Len(todo)

\* C16: configuration errors are detected eagerly.  A run given a
\* non-positive batchSize never starts its batch loop and issues no remote
\* call.
C16_EagerConfigCheck ==
  (entry = "csv" /\ opts.batchSize <= 0) =>
    /\ batches = <<>>
    /\ \A x \in DOMAIN calls : calls[x] = 0

\* C17: date-scoped deletion.  deleteProductsByDate issues a delete call
\* only for products whose created_at date part equals targetDate.
C17_DateScopedDeletion ==
  entry = "deleter" =>
    \A n \in 1..Len(todo) :
      calls[todo[n].idx] > 0 => createdOn(todo[n].product, targetDate)


\* the run at hand was started with dryRun set
DryRunning == entry \in {"csv", "legacy", "deleter", "api"} /\ opts.dryRun

\* C18: a dry run has no remote effect.  While a run of processProductsFromCSV,
\* createProductsFromCSV, processProductsFromAPI (and, under it,
\* processBatchDirect) or deleteProductsByDate has dryRun set, no create,
\* update or delete call is issued for any item and the remote catalog stays
\* as it was, whatever the other options are.
C18_DryRunNoRemoteEffect ==
  [][DryRunning' =>
       /\ remote' = remote
       /\ \A x \in DOMAIN calls' : calls'[x] = 0
       /\ \A x \in DOMAIN outcome' : outcome'[x] # "inflight"]_vars

\* a dry run over the feed of the API has returned with items counted as
\* created
C18_Witness ==
  /\ entry = "api"
  /\ opts.dryRun
  /\ pc = "done"
  /\ results.created > 0
  /\ \A x \in DOMAIN calls : calls[x] = 0


\* the identifiers of the category vocabulary
VocabularyIds == {categoryMap[n][2] : n \in 1..Len(categoryMap)}

\* C19: the taxonomy resolver is deterministic and total.  For every
\* category string, a missing or empty one included, every call of
\* getCategoryId returns an identifier that is a value of the category
\* vocabulary or the default identifier, never null, and two calls with the
\* same input return the same identifier.
C19_ResolverTotal ==
  entry = "resolver" =>
    /\ \A k \in 1..Len(categoryId) :
         /\ categoryId[k] \in VocabularyIds \cup {defaultJewelryCategory}
         /\ categoryId[k] # Null
    /\ \A k, m \in 1..Len(categoryId) : categoryId[k] = categoryId[m]

\* getCategoryId was called twice on a string none of whose alternative paths
\* resolves
C19_Witness ==
  /\ entry = "resolver"
  /\ Len(categoryId) = 2
  /\ category # <<>>
  /\ \A k \in 1..Len(split(category, {";"})) :
       findBestCategoryMatch(split(category, {";"})[k]) = Null

NecklacesCategory == get(<<"n", "e", "c", "k", "l", "a", "c", "e", "s">>)

\* C20: the category string of the sample record,
\* '\Jewelry\Necklaces\Chain Necklaces\Rope Chain Necklaces;\Jewelry\Chains\Rope Chains\Rope Chain',
\* resolves to the necklaces category, and each of its two alternative paths
\* taken alone resolves to that same identifier.
C20_SampleResolvesToNecklaces ==
  (entry = "resolver" /\ category \in {SampleCategories, SampleFirst, SampleSecond}) =>
    \A k \in 1..Len(categoryId) : categoryId[k] = NecklacesCategory

\* getCategoryId has returned for the second alternative path of the sample
\* taken alone, which resolves by its own keywords and not by the default
C20_Witness ==
  /\ entry = "resolver"
  /\ category = SampleSecond
  /\ categoryId # <<>>
  /\ findBestCategoryMatch(SampleSecond) # Null


PriceReasonLabels == {"No MSRP data", "MSRP below minimum", "MSRP above maximum"}

LineReasonLabels == {"Product line not in criteria"}

\* the positions of a list of reasons that hold a label of the set
ReasonsIn(reasons, labels) == {n \in 1..Len(reasons) : reasons[n] \in labels}

\* C21: the eligibility evaluation returns the complete list of the
\* rejection reasons that were triggered, in evaluation order (price check,
\* then line check, then exclusion check); at most one price reason appears
\* for one record, and matches is true exactly when the list is empty.  A
\* record an exclusion rule rejects therefore has a reason after the price
\* and line reasons.
C21_CompleteReasons ==
  entry = "filter" =>
    \A k \in 1..Len(evaluation) :
      LET reasons == evaluation[k].reasons
          pr == ReasonsIn(reasons, PriceReasonLabels)
          lr == ReasonsIn(reasons, LineReasonLabels)
          xr == (1..Len(reasons)) \ (pr \cup lr)
      IN /\ evaluation[k].matches <=> reasons = <<>>
         /\ Cardinality(pr) <= 1
         /\ \A a \in pr, b \in lr \cup xr : a < b
         /\ \A a \in lr, b \in xr : a < b
         /\ ~notExcluded(csvData[k]) <=> xr # {}

\* the price lies within the inclusive bounds, after the tolerant parse
TolerantPriceOk(priceStr, criteria) ==
  LET price == parseFloat(SelectSeq(priceStr, IsPriceChar))
  IN /\ priceStr # <<>>
     /\ price # NaN
     /\ price >= 100 * criteria.msrpMin
     /\ price <= 100 * criteria.msrpMax

\* the records of a list with the given Item, in the order of the list
ItemsOf(products) == [k \in 1..Len(products) |-> products[k].Item]

\* C22: filterProducts keeps exactly the records whose price lies within the
\* configured inclusive bounds and whose product line matches a configured
\* line, in their original order: of the four sample records of
\* testFiltering, TEST-001 and TEST-003 are kept and the other two dropped.
C22_SampleFiltered ==
  (entry = "filter" /\ csvData = sampleData /\ "ProductProcessor" \in DOMAIN filtered) =>
    ItemsOf(filtered["ProductProcessor"]) = <<sampleData[1].Item, sampleData[3].Item>>


\* the record is in the list
Kept(product, products) == \E n \in 1..Len(products) : products[n] = product

\* C23: tolerant price check.  On every filter path the price field is parsed
\* after stripping every character other than digits, '.' and '-': a record
\* whose other checks pass is kept by filterProducts exactly when the
\* stripped price lies within the inclusive bounds, and the evaluation gives
\* no price reason exactly then; so a price with a thousands separator, or
\* equal to a bound, passes and an empty or non-numeric one fails.
C23_TolerantPrice ==
  entry = "filter" =>
    \A k \in 1..Len(csvData) :
      /\ ( /\ "ProductProcessor" \in DOMAIN filtered
           /\ notDiscontinued(csvData[k])
           /\ hasMatchingProductLine(trim(toLowerCase(csvData[k].ProductLine)),
                                     processorCriteria)
           /\ notExcluded(csvData[k])
           /\ hasRequiredFields(csvData[k]) )
         => ( TolerantPriceOk(csvData[k].ContractPrice, processorCriteria)
              <=> Kept(csvData[k], filtered["ProductProcessor"]) )
      /\ ( /\ "ProductAnalyzer" \in DOMAIN filtered
           /\ hasMatchingProductLine(trim(toLowerCase(csvData[k].ProductLine)),
                                     analyzerCriteria)
           /\ hasRequiredFields(csvData[k]) )
         => ( TolerantPriceOk(csvData[k].ContractPrice, analyzerCriteria)
              <=> Kept(csvData[k], filtered["ProductAnalyzer"]) )
      /\ evaluation # <<>>
         => ( TolerantPriceOk(csvData[k].MSRP, opts)
              <=> ReasonsIn(evaluation[k].reasons, PriceReasonLabels) = {} )

\* the label equals a configured line, contains one, or is part of one
LooseLineMatch(label, configured) ==
  \E n \in 1..Len(configured) :
    \/ label = configured[n]
    \/ includes(label, configured[n])
    \/ includes(configured[n], label)

\* C24: line matching is loose in both directions.  A record passes the line
\* check of the evaluation exactly when its normalized (case-folded,
\* trimmed) label equals a configured line, contains a configured line, or
\* is itself a substring of a configured line.
C24_LooseLineMatch ==
  entry = "filter" =>
    \A k \in 1..Len(evaluation) :
      LET label == trim(toUpperCase(csvData[k].ProductLine))
      IN (label # <<>> /\ LooseLineMatch(label, opts.productLines))
           <=> ReasonsIn(evaluation[k].reasons, LineReasonLabels) = {}


\* a segment as the resolver compares it: case-folded and trimmed
NormalSegment(seg) == trim(toLowerCase(seg))

\* C25: leaf-first resolution.  For one candidate path with at least two
\* segments, whichever separator delimits them, the segments are examined
\* from the rightmost (leaf) to the leftmost: when the leaf segment equals a
\* vocabulary keyword the result is that keyword's category, whatever the
\* ancestor segments contain.
C25_LeafFirst ==
  entry = "resolver" =>
    \A segs \in SegmentLists, sep \in Separators :
      ( /\ Len(segs) >= 2
        /\ category = join(segs, sep)
        /\ has(NormalSegment(segs[Len(segs)])) )
      => \A k \in 1..Len(categoryId) :
           categoryId[k] = get(NormalSegment(segs[Len(segs)]))

\* C26: separator equivalence.  For every sequence of segments, joining
\* them with backslash, forward slash, greater-than or pipe gives paths that
\* all resolve to the same category identifier.
C26_SeparatorEquivalence ==
  entry = "resolver" =>
    \A segs \in SegmentLists, sep \in Separators, other \in Separators :
      category = join(segs, sep)
      => \A k \in 1..Len(categoryId) :
           categoryId[k] = getCategoryId(join(segs, other))


\* the normalized path and its segments, leaf first
NormalPath(path) == SelectSeq(toLowerCase(trim(path)), NotBackslash)

LeafFirstSegments(path) ==
  LET parts == split(NormalPath(path), Separators)
  IN reverse(SelectSeq([k \in 1..Len(parts) |-> trim(parts[k])], NotEmpty))

Keyword(n) == categoryMap[n][1]

\* the segment hits: it is a keyword, contains one or is contained in one
SegmentHits(seg) ==
  \E n \in 1..Len(categoryMap) :
    seg = Keyword(n) \/ includes(seg, Keyword(n)) \/ includes(Keyword(n), seg)

\* id is what the match order gives for a segment that hits
SegmentGives(seg, id) ==
  IF \E n \in 1..Len(categoryMap) : seg = Keyword(n)
    THEN \E n \in 1..Len(categoryMap) : seg = Keyword(n) /\ id = categoryMap[n][2]
    ELSE \E n \in 1..Len(categoryMap) :
           /\ includes(seg, Keyword(n)) \/ includes(Keyword(n), seg)
           /\ \A m \in 1..(n - 1) :
                ~(includes(seg, Keyword(m)) \/ includes(Keyword(m), seg))
           /\ id = categoryMap[n][2]

\* id is what the search of the whole path gives
PathGives(path, id) ==
  \E n \in 1..Len(categoryMap) :
    /\ includes(NormalPath(path), Keyword(n))
    /\ \A m \in 1..(n - 1) : ~includes(NormalPath(path), Keyword(m))
    /\ id = categoryMap[n][2]

\* id is what one alternative resolves to
AlternativeGives(path, id) ==
  LET segs == LeafFirstSegments(path)
  IN /\ path # <<>>
     /\ IF \E k \in 1..Len(segs) : SegmentHits(segs[k])
          THEN \E k \in 1..Len(segs) :
                 /\ SegmentHits(segs[k])
                 /\ \A m \in 1..(k - 1) : ~SegmentHits(segs[m])
                 /\ SegmentGives(segs[k], id)
          ELSE PathGives(path, id)

AlternativeResolves(path) == \E id \in VocabularyIds : AlternativeGives(path, id)

\* C27: match order per segment.  For each segment (of the normalized path,
\* leaf first) an exact vocabulary match is returned if one exists; otherwise
\* the result is the category of the first keyword, in insertion order, such
\* that the segment contains the keyword or the keyword contains the
\* segment; only when no segment hits is the whole normalized path searched
\* for a contained keyword, and only then does the resolver move to the next
\* semicolon-delimited alternative (and after the last one to the default).
C27_MatchOrder ==
  (entry = "resolver" /\ category # <<>>) =>
    LET alternatives == split(category, {";"})
    IN \A k \in 1..Len(categoryId) :
         \/ \E a \in 1..Len(alternatives) :
              /\ AlternativeGives(alternatives[a], categoryId[k])
              /\ \A b \in 1..(a - 1) : ~AlternativeResolves(alternatives[b])
         \/ /\ \A a \in 1..Len(alternatives) : ~AlternativeResolves(alternatives[a])
            /\ categoryId[k] = defaultJewelryCategory

\* getCategoryId has returned for a string whose first alternative does not
\* resolve and whose second is no keyword but is related to keywords of
\* different categories
C27_Witness ==
  /\ entry = "resolver"
  /\ categoryId # <<>>
  /\ LET alternatives == split(category, {";"})
     IN /\ Len(alternatives) = 2
        /\ ~AlternativeResolves(alternatives[1])
        /\ LeafFirstSegments(alternatives[2]) # <<>>
        /\ ~has(LeafFirstSegments(alternatives[2])[1])
        /\ \E n, m \in Related(LeafFirstSegments(alternatives[2])[1]) :
             categoryMap[n][2] # categoryMap[m][2]


\* a number held in hundredths, 0 for one that is absent
HundredthsOrZero(str) == IF str = <<>> \/ parseFloat(str) = NaN THEN 0 ELSE parseFloat(str)

FirstVariantField(product, field, zero) ==
  IF VariantsOf(product) # <<>> /\ field \in DOMAIN VariantsOf(product)[1]
    THEN VariantsOf(product)[1][field]
    ELSE zero

\* the tracked fields of a matched pair that differ, an absent one taken as
\* its zero value
FieldsThatDiffer(csvItem, product) ==
  LET q == parseInt(csvItem.Qty_Avail)
  IN (IF product.title # OrElse(csvItem.Description,
                                 OrElse(csvItem.Item, UntitledProduct))
        THEN {"title"} ELSE {})
     \cup (IF HundredthsOrZero(FirstVariantField(product, "price", <<>>))
               # HundredthsOrZero(parsePrice(OrElse(csvItem.MSRP, csvItem.ContractPrice)))
             THEN {"price"} ELSE {})
     \cup (IF FirstVariantField(product, "inventory_quantity", 0)
               # (IF q = NaN THEN 0 ELSE q)
             THEN {"inventory"} ELSE {})
     \cup (IF "status" \notin DOMAIN product
               \/ product.status # (IF csvItem.Status = "Active" THEN "active" ELSE "draft")
             THEN {"status"} ELSE {})

\* C28: changedFields is exactly the set of tracked fields that differ.  For
\* a matched pair doesProductNeedUpdate reports 'title' iff the titles
\* differ, 'price' iff the first variant's price differs numerically from
\* the incoming price, 'inventory' iff the integer inventory counts differ,
\* 'status' iff the remote status differs from the incoming status
\* normalized to active/draft; a field absent on the remote side is compared
\* as its zero value, not skipped.
C28_ChangedFields ==
  (entry = "csv" /\ pc = "categorized" /\ opts.enableUpdates) =>
    \A k \in 1..Len(decisions) :
      decisions[k].action # "create" =>
        LET changes == IF decisions[k].action = "update" THEN decisions[k].changes
                       ELSE <<>>
        IN {changes[n] : n \in 1..Len(changes)}
             = FieldsThatDiffer(csvData[k], decisions[k].existingProduct)

\* C29: reconciliation never raises on missing optional fields.  For every
\* feed and every remote catalog whose products may lack a title, variants,
\* price, inventory or status, the index build and the decisions complete
\* for all records without throwing.
C29_NeverRaises ==
  (entry = "csv" /\ pc \in {"categorized", "failed"}) =>
    /\ pc = "categorized"
    /\ Len(decisions) = Len(csvData)

\* the products of the page at hand whose payload cannot be built
ThrowingSkus ==
  {todo[k].apiProduct.sku : k \in {x \in 1..Len(todo) : mapAPIThrows(todo[x].apiProduct)}}

\* C30: in processProductsBatch of the API pipeline, when building the
\* payload of one item of a batch throws, only that item is recorded as
\* errored, and the other items of the batch are still sent to the remote
\* service and recorded with their own outcomes
C30_PayloadFailureIsolated ==
  (entry = "api" /\ ~ dryRun(opts)) =>
    /\ \A b \in DOMAIN batches : \A k \in 1..Len(batches[b]) :
          ~ mapAPIThrows(batches[b][k].apiProduct) => calls[batches[b][k].idx] >= 1
    /\ \A d \in DOMAIN bresult.errorDetails :
          bresult.errorDetails[d].error = "Batch failure" =>
            bresult.errorDetails[d].item \in ThrowingSkus


\* the records of the feed that evaluateProduct rejects with the reasons in R
RejectedWith(R) ==
  {k \in 1..Len(csvData) :
     /\ ~ evaluateThrows(csvData[k])
     /\ evaluateProduct(csvData[k], opts).reasons \in R}

SpecificReasons ==
  {"No MSRP data", "MSRP below minimum", "MSRP above maximum",
   "Product line not in criteria"}

SeveralReasons ==
  {<<p, "Product line not in criteria">> :
     p \in {"No MSRP data", "MSRP below minimum", "MSRP above maximum"}}

\* C31: in performAnalysis every rejected record increments exactly one
\* rejection-reason bucket, its single specific reason when exactly one
\* criterion failed and 'Multiple criteria failed' when more than one
\* failed, so the bucket counts sum to rejected, and matching + rejected +
\* the number of recorded errors equals total
C31_RejectionAccounting ==
  analysis # <<>> =>
    /\ \A reason \in SpecificReasons :
          analysis.rejectionReasons[reason] = Cardinality(RejectedWith({<<reason>>}))
    /\ analysis.rejectionReasons["Multiple criteria failed"]
          = Cardinality(RejectedWith(SeveralReasons))
    /\ analysis.rejectionReasons["No MSRP data"]
          + analysis.rejectionReasons["MSRP below minimum"]
          + analysis.rejectionReasons["MSRP above maximum"]
          + analysis.rejectionReasons["Product line not in criteria"]
          + analysis.rejectionReasons["Multiple criteria failed"] = analysis.rejected
    /\ analysis.matching + analysis.rejected + Len(analysis.errors) = analysis.total
    /\ analysis.total = Len(csvData)

\* an analysis with a single-reason rejection, a multiple one and an error
C31_Witness ==
  /\ analysis # <<>>
  /\ analysis.rejectionReasons["Product line not in criteria"] = 1
  /\ analysis.rejectionReasons["Multiple criteria failed"] = 1
  /\ Len(analysis.errors) = 1


ExclusionSubstrings ==
  {<<"f", "i", "n", "d", "i", "n", "g">>, <<"m", "o", "u", "n", "t", "i", "n", "g">>,
   <<"e", "n", "g", "r", "a", "v", "e", "a", "b", "l", "e">>,
   <<"p", "e", "r", "s", "o", "n", "a", "l", "i", "z", "e", "d">>}

\* an exclusion substring occurs in the category path, the item type or the
\* description of the record, whatever its case
ExcludedByContent(r) ==
  \E x \in ExclusionSubstrings :
    \/ includes(toLowerCase(r.Categories), x)
    \/ includes(toLowerCase(r.Item_Type), x)
    \/ includes(toLowerCase(r.Description), x)

Discontinued(r) ==
  trim(toLowerCase(r.Status)) = <<"d", "i", "s", "c", "o", "n", "t", "i", "n", "u", "e", "d">>

\* C32: a record in which an exclusion substring occurs, in any case, in its
\* category path, item-type field or description is rejected by
\* filterProducts even when its price is in range and its line matches, and
\* so is a discontinued record
C32_ExclusionsIndependent ==
  "ProductProcessor" \in DOMAIN filtered =>
    \A k \in 1..Len(csvData) :
      (ExcludedByContent(csvData[k]) \/ Discontinued(csvData[k]))
        => ~ Kept(csvData[k], filtered["ProductProcessor"])

\* C33: with maxPages = M > 0, processProductsFromAPI issues at most M page
\* fetches, whatever mix of successful, empty and failing pages the feed
\* returns
C33_PageLimit ==
  (entry = "api" /\ opts.maxPages > 0) => Len(fetched) <= opts.maxPages


\* C34: with maxPages unset, processProductsFromAPI eventually returns a
\* result for every behaviour of the feed in which only finitely many pages
\* carry products, also when every later request is answered with a
\* non-critical error
C34_PaginationTerminates ==
  (pc = "apiFetch" /\ opts.maxPages = 0) ~> (pc = "done")


\* the pages that were fetched: the calls of fetchPageFromAPI that returned
FetchedPages ==
  SelectSeq(fetched, LAMBDA f : f.answer \in {"empty", "products"})

\* how many of the last pages of the list were empty, one after the other
RECURSIVE EmptyRun(_)
EmptyRun(pages) ==
  IF pages = <<>> \/ pages[Len(pages)].answer # "empty" THEN 0
  ELSE 1 + EmptyRun(SubSeq(pages, 1, Len(pages) - 1))

\* the pages fetched before the call number k
FetchedBefore(k) ==
  SelectSeq(SubSeq(fetched, 1, k - 1), LAMBDA f : f.answer \in {"empty", "products"})

\* C35: processProductsFromAPI stops paginating exactly when three
\* consecutive fetched pages were empty; the consecutive-empty counter is
\* reset to 0 by every non-empty page, and no page is fetched after the third
\* consecutive empty one
C35_EmptyPageStop ==
  entry = "api" =>
    /\ consecutiveEmptyPages = EmptyRun(FetchedPages)
    /\ consecutiveEmptyPages <= EmptyPagesLimit
    /\ EmptyRun(FetchedPages) = EmptyPagesLimit => pc = "done"
    /\ \A k \in DOMAIN fetched : EmptyRun(FetchedBefore(k)) < EmptyPagesLimit
    /\ ( /\ pc = "done"
         /\ opts.maxPages = 0
         /\ fetched[Len(fetched)].answer # "critical" )
         => EmptyRun(FetchedPages) = EmptyPagesLimit

\* the run has stopped on the third consecutive empty page, the pages after
\* a page with products
C35_Witness ==
  /\ entry = "api"
  /\ pc = "done"
  /\ Len(fetched) = 4
  /\ fetched[1].answer = "products"
  /\ EmptyRun(FetchedPages) = EmptyPagesLimit


\* the call of fetchPageFromAPI that was pending has failed in this step
PageFetchFails ==
  /\ pc = "apiAwaitPage"
  /\ fetched'[Len(fetched)].answer \in {"error", "critical"}

\* the message of the page error recorded last in the next state
LastMessage == results'.errorDetails[Len(results'.errorDetails)].error

\* C36: a failed page fetch adds exactly one to errors and exactly one
\* 'page_error' record; if the error message contains '404' or
\* 'unauthorized' no further page is fetched, otherwise the next page number
\* is fetched and the products already processed keep their counts
C36_PageError ==
  /\ [][PageFetchFails =>
          /\ results'.errors = results.errors + 1
          /\ Len(results'.errorDetails) = Len(results.errorDetails) + 1
          /\ SubSeq(results'.errorDetails, 1, Len(results.errorDetails))
                = results.errorDetails
          /\ results'.errorDetails[Len(results'.errorDetails)].type = "page_error"
          /\ results'.errorDetails[Len(results'.errorDetails)].page = currentPage
          /\ [results' EXCEPT !.errors = 0, !.errorDetails = <<>>]
                = [results EXCEPT !.errors = 0, !.errorDetails = <<>>]
          /\ IF includes(LastMessage, <<"4", "0", "4">>) \/ includes(LastMessage, <<"u", "n", "a", "u", "t", "h", "o", "r", "i", "z", "e", "d">>)
               THEN pc' = "done"
               ELSE pc' = "apiFetch" /\ currentPage' = currentPage + 1]_vars
  /\ [][pc = "done" => fetched' = fetched]_vars
  /\ [](entry = "api" =>
          \A k \in 1..(Len(fetched) - 1) :
            fetched[k].answer = "error" => fetched[k + 1].page = fetched[k].page + 1)

\* a page with products was processed, the next call failed with an error
\* that is not critical, and the page after it has been asked for
C36_Witness ==
  /\ entry = "api"
  /\ Len(fetched) = 3
  /\ fetched[1].answer = "products"
  /\ fetched[2].answer = "error"
  /\ results.created >= 1
  /\ results.errors >= 1


\* C37: when a page request of getAllProducts is answered with status 429,
\* getAllProducts returns a list without raising; every other request
\* failure is raised to the caller, and no page is requested after a failure
C37_RateLimitedRead ==
  (entry = "catalog" /\ fetched # <<>>) =>
    LET last == fetched[Len(fetched)].answer
    IN /\ last = "429" => pc = "done" /\ allProducts = <<>>
       /\ last \in Failures \ {"429"} => pc = "failed"
       /\ pc = "failed" => last \in Failures \ {"429"}
       /\ \A k \in 1..(Len(fetched) - 1) : fetched[k].answer = "ok"

\* the second page of the catalog was answered with 429 and the call returned
C37_Witness ==
  /\ entry = "catalog"
  /\ Len(fetched) = 2
  /\ fetched[1].answer = "ok"
  /\ fetched[2].answer = "429"
  /\ pc = "done"


====
